---- MODULE Spec2Model ----
(***************************************************************************)
(* Size-aggregation engine of gdrive-explorer (DriveCalculator) over a     *)
(* DriveStructure, with the per-item persistent cache (DriveCache).        *)
(*                                                                         *)
(* One run of calculate_full_drive_sizes is modelled step by step: the     *)
(* candidate loop, the recursive _calculate_folder_size_recursive with an  *)
(* explicit call stack, exception propagation through the finally clause,  *)
(* and the except clauses of the candidate loop.                           *)
(*                                                                         *)
(* Further specifications over the same variables: IncrementalSpec         *)
(* (calculate_incremental_sizes after a rescan), ShouldRecalculateSpec     *)
(* (the decision function _should_recalculate on enumerated folders) and   *)
(* CacheSpec (the public operations of DriveCache on a database file).     *)
(***************************************************************************)
EXTENDS Integers, Sequences, FiniteSets, TLC

(***************************************************************************)
(* Bounds of the model                                                     *)
(***************************************************************************)
MaxRuns == 2
MaxTicks == 1
RecursionLimit == 5

(***************************************************************************)
(* Program constants                                                       *)
(***************************************************************************)
ttl_hours == 24
SCHEMA_VERSION == 2

(***************************************************************************)
(* The item universe: three folders, two plain files, a workspace document *)
(***************************************************************************)
Folders == {"A", "B", "C"}
Files == {"x", "y", "d"}
Items == Folders \cup Files
ItemOrder == <<"A", "B", "C", "x", "y", "d">>

is_folder(i) == i \in Folders

size(i) == CASE i = "x" -> 1024
             [] i = "y" -> 2048
             [] OTHER -> 0

(* Optional[...] values: None is the empty tuple, a value v is <<v>> *)
None == << >>
Some(v) == <<v>>
Val(o) == o[1]

(* The exceptions a call of _calculate_folder_size_recursive can raise *)
ExcKinds == {"PermissionError", "RateLimitError", "Exception"}
FaultKinds == {"none", "PermissionError", "RateLimitError", "RateLimitOnce", "Exception"}

VARIABLES
    children,            \* DriveItem.children of every folder
    modified_time,       \* DriveItem.modified_time
    calculated_size,     \* DriveItem.calculated_size (Optional[int])
    file_count,          \* DriveItem.file_count
    folder_count,        \* DriveItem.folder_count
    last_scanned,        \* DriveItem.last_scanned (Optional)
    scan_complete,       \* DriveItem.scan_complete
    structure,           \* DriveStructure totals, scan_timestamp, scan_complete
    cache_enabled,       \* config.cache.enabled
    cache_items,         \* table drive_items of the persistent cache
    cache_structures,    \* table drive_structures, row "full_drive"
    stats,               \* the statistics counters of DriveCalculator
    calculated_folders,  \* DriveCalculator._calculated_folders (run memo)
    processing_folders,  \* DriveCalculator._processing_folders
    pc,                  \* position of the run
    candidates,          \* folders_to_calculate not yet iterated
    cur,                 \* the loop variable `folder`
    retrying,            \* inside the retry of the RateLimitError clause
    processed,           \* local counter `processed`
    arg,                 \* argument of the call being entered
    stack,               \* frames of _calculate_folder_size_recursive
    ret,                 \* value of the last return
    exc,                 \* exception in flight, and the folder that raised it
    fault,               \* which folders raise, and what
    spent,               \* folders whose one-time failure already happened
    now,                 \* datetime.now(), in hours
    runs,                \* number of runs started
    result,              \* how the last run ended
    attempts,            \* top-level calls per candidate in this run
    failed,              \* candidates whose aggregation failed in this run
    history,             \* per run: its arguments and the fields it ended with
    consecutive,         \* no time has passed since the previous run ended
    database,            \* the SQLite file: its tables, columns and schema version
    call,                \* the last call made on the DriveCache and what it returned
    stored,              \* per cache key, the value the last successful put stored
    all_items,           \* the ids in DriveStructure.all_items
    drive,               \* the remote Drive: the parent of every item
    scan,                \* the scan_drive_complete call in progress, or the last one
    conns                \* per thread, its cache_item call and SQLite connection

itemVars == <<calculated_size, file_count, folder_count, last_scanned, scan_complete>>
envVars == <<children, modified_time, cache_enabled, fault, database, call, stored,
            all_items, drive, scan, conns>>
ghostVars == <<attempts, failed, history, consecutive>>
vars == <<children, modified_time, calculated_size, file_count, folder_count,
          last_scanned, scan_complete, structure, cache_enabled, cache_items,
          cache_structures, stats, calculated_folders, processing_folders, pc,
          candidates, cur, retrying, processed, arg, stack,
          ret, exc, fault, spent, now, runs, result, attempts, failed, history,
          consecutive, database, call, stored, all_items, drive, scan, conns>>

(***************************************************************************)
(* Helpers on the structure                                                *)
(***************************************************************************)
SeqToSet(q) == {q[k] : k \in 1..Len(q)}

Kids(f) == SeqToSet(children[f])

RECURSIVE ReachFrom(_, _)
ReachFrom(S, n) ==
    IF n = 0 THEN S
    ELSE ReachFrom(S \cup UNION {Kids(g) : g \in S \cap Folders}, n - 1)

(* Every item below folder f, following the child lists *)
Below(f) == ReachFrom(Kids(f), Cardinality(Items))

RECURSIVE SumOfSizes(_)
SumOfSizes(S) ==
    IF S = {} THEN 0
    ELSE LET i == CHOOSE j \in S : TRUE IN size(i) + SumOfSizes(S \ {i})

(* The child links form a forest: nobody is its own descendant, and nobody *)
(* is in two child lists.                                                  *)
IsForest ==
    /\ \A f \in Folders : f \notin Below(f)
    /\ \A f, g \in Folders : f # g => Kids(f) \cap Kids(g) = {}

(* pickle.dumps(item.dict()) walks the children recursively and raises on a *)
(* folder that reaches itself                                               *)
_serialize_item_ok(f) ==
    \A g \in ({f} \cup Below(f)) \cap Folders : g \notin Below(g)

_serialize_structure_ok ==
    \A g \in Folders : g \notin Below(g)

(* _should_recalculate that never trusts a calculated size *)
_should_recalculate_always(cs, ls, kids) == TRUE

(***************************************************************************)
(* DriveCalculator._should_recalculate, on the fields of a (live or        *)
(* cached) folder whose children are kids                                  *)
(***************************************************************************)
_should_recalculate(cs, ls, kids) ==
    IF cs = None THEN TRUE
    ELSE IF ls # None /\ (now - Val(ls)) < ttl_hours THEN FALSE
    ELSE IF ls # None
              /\ \E c \in kids : modified_time[c] # None /\ Val(modified_time[c]) > Val(ls)
         THEN TRUE
    ELSE FALSE

(***************************************************************************)
(* DriveCache: the drive_items table                                       *)
(***************************************************************************)
_calculate_expiry == now + ttl_hours

_is_expired(expires_at) == now > expires_at

(* The database file has the table: a statement on a missing table raises  *)
(* sqlite3.OperationalError, which every operation catches                 *)
HasTable(name) == name \in database.tables

(* DriveCache.get_item: the value returned *)
get_item(id) ==
    IF ~cache_enabled THEN None
    ELSE IF ~HasTable("drive_items") THEN None
    ELSE IF cache_items[id] = None THEN None
    ELSE IF _is_expired(Val(cache_items[id]).expires_at) THEN None
    ELSE cache_items[id]

(* get_item that deletes every expired row it finds *)
get_item_table_purging(id) ==
    IF cache_enabled /\ cache_items[id] # None
          /\ _is_expired(Val(cache_items[id]).expires_at)
    THEN [f \in Folders |-> IF cache_items[f] # None
                                 /\ _is_expired(Val(cache_items[f]).expires_at)
                            THEN None ELSE cache_items[f]]
    ELSE cache_items

(* DriveCache.get_item: the table afterwards (an expired row is deleted) *)
get_item_table(id) ==
    IF cache_enabled /\ HasTable("drive_items") /\ cache_items[id] # None
          /\ _is_expired(Val(cache_items[id]).expires_at)
    THEN [cache_items EXCEPT ![id] = None]
    ELSE cache_items

(* cache_item with INSERT OR IGNORE: an existing row is kept *)
cache_item_keeping_existing(table, f, cs, fc, dc, ls) ==
    IF ~cache_enabled THEN table
    ELSE IF ~_serialize_item_ok(f) THEN table
    ELSE IF table[f] # None THEN table
    ELSE [table EXCEPT ![f] = Some([calculated_size |-> cs, file_count |-> fc,
                                     folder_count |-> dc, last_scanned |-> ls,
                                     expires_at |-> _calculate_expiry])]

(* DriveCache.cache_item: the table after storing folder f with the given fields *)
cache_item(table, f, cs, fc, dc, ls) ==
    IF ~cache_enabled THEN table
    ELSE IF ~_serialize_item_ok(f) THEN table
    ELSE IF ~HasTable("drive_items") THEN table
    ELSE [table EXCEPT ![f] = Some([calculated_size |-> cs, file_count |-> fc,
                                     folder_count |-> dc, last_scanned |-> ls,
                                     expires_at |-> _calculate_expiry])]

(***************************************************************************)
(* Initial state: a structure whose hierarchy is built, nothing aggregated, *)
(* an empty cache, a calculator just constructed                           *)
(***************************************************************************)
NoParent == "none"

ParentChoices ==
    {par \in [Items -> Folders \cup {NoParent}] :
        /\ par["x"] = "A"
        /\ par["y"] = "B"
        /\ par["d"] \in {"A", NoParent}}

Faulty(fl) == {f \in Folders : fl[f] # "none"}

(* One folder failing in any way, or two folders failing persistently *)
FaultChoices ==
    {fl \in [Folders -> FaultKinds] :
        \/ Cardinality(Faulty(fl)) <= 1
        \/ /\ Cardinality(Faulty(fl)) = 2
           /\ \A f \in Faulty(fl) : fl[f] \in {"PermissionError", "Exception"}}

ZeroStats ==
    [processed_items |-> 0, total_size_calculated |-> 0, errors_encountered |-> 0,
     permission_errors |-> 0, rate_limit_errors |-> 0, cache_hits |-> 0, api_calls |-> 0]

NoExc == [kind |-> "none", origin |-> "none"]

Fields == [calculated_size |-> calculated_size, file_count |-> file_count,
           folder_count |-> folder_count]

(* The database file: the tables it has, which of the columns that schema  *)
(* version 2 added to drive_structures are there, and the schema_version   *)
(* row of cache_metadata                                                   *)
AllTables == {"cache_metadata", "drive_items", "drive_structures"}

AddedColumns == {"scan_complete", "total_files", "total_folders", "scan_errors"}

CurrentDatabase ==
    [tables |-> AllTables, added_columns |-> AddedColumns,
     schema_version |-> Some(SCHEMA_VERSION)]

NoCall == [op |-> "none", key |-> "none", ret |-> None]

StructureKey == "full_drive"

NothingStored == [k \in Folders \cup {StructureKey} |-> None]

(* No remote Drive is attached, no scan_drive_complete call has been made, *)
(* no thread is using the cache                                            *)
NoDrive == [i \in Items |-> "none"]

NoScan == [phase |-> "idle", n |-> 0, use_cache |-> FALSE, calculate_sizes |-> FALSE,
           callback |-> FALSE, fetched |-> {}, page_failed |-> 0, remote_calls |-> 0,
           steps |-> << >>, outcome |-> "none", returned |-> None]

Threads == {1, 2}

NoConns == [t \in Threads |-> [pc |-> "idle", key |-> "none", todo |-> << >>,
                                pages |-> None, busy |-> FALSE, results |-> << >>]]

Init ==
    /\ \E par \in ParentChoices :
          children = [f \in Folders |-> SelectSeq(ItemOrder, LAMBDA i : par[i] = f)]
    /\ modified_time = [i \in Items |-> Some(0)]
    /\ calculated_size = [f \in Folders |-> None]
    /\ file_count = [f \in Folders |-> 0]
    /\ folder_count = [f \in Folders |-> 0]
    /\ last_scanned = [f \in Folders |-> None]
    /\ scan_complete = [f \in Folders |-> FALSE]
    /\ structure = [total_files |-> Cardinality(Files), total_folders |-> Cardinality(Folders),
                    total_size |-> SumOfSizes(Files), scan_timestamp |-> None,
                    scan_complete |-> FALSE]
    /\ cache_enabled \in BOOLEAN
    /\ cache_items = [f \in Folders |-> None]
    /\ cache_structures = None
    /\ stats = ZeroStats
    /\ calculated_folders = [f \in Folders |-> None]
    /\ processing_folders = {}
    /\ pc = "idle"
    /\ candidates = {}
    /\ cur = "none"
    /\ retrying = FALSE
    /\ processed = 0
    /\ arg = "none"
    /\ stack = << >>
    /\ ret = 0
    /\ exc = NoExc
    /\ fault \in FaultChoices
    /\ spent = {}
    /\ now = 0
    /\ runs = 0
    /\ result = "none"
    /\ attempts = [f \in Folders |-> 0]
    /\ failed = {}
    /\ history = << >>
    /\ consecutive = FALSE
    /\ database = CurrentDatabase
    /\ call = NoCall
    /\ stored = NothingStored
    /\ all_items = Items
    /\ drive = NoDrive
    /\ scan = NoScan
    /\ conns = NoConns

(***************************************************************************)
(* calculate_full_drive_sizes: start, and the candidate loop               *)
(***************************************************************************)
folders_to_calculate(force) ==
    {f \in Folders : force \/ calculated_size[f] = None}

StartRun(force) ==
    /\ pc = "idle"
    /\ runs < MaxRuns
    /\ stats' = ZeroStats
    /\ calculated_folders' = [f \in Folders |-> None]
    /\ processing_folders' = {}
    /\ candidates' = folders_to_calculate(force)
    /\ processed' = 0
    /\ pc' = "loop"
    /\ runs' = runs + 1
    /\ result' = "none"
    /\ attempts' = [f \in Folders |-> 0]
    /\ failed' = {}
    /\ history' = Append(history, [candidates |-> folders_to_calculate(force),
                                   uncalculated |-> folders_to_calculate(FALSE),
                                   consecutive |-> consecutive,
                                   done |-> FALSE, fields |-> Fields,
                                   processed_items |-> 0])
    /\ UNCHANGED <<itemVars, envVars, structure, cache_items, cache_structures,
                   cur, retrying, arg, stack, ret, exc, spent, now, consecutive>>

NextCandidate ==
    /\ pc = "loop"
    /\ \E f \in candidates :
          /\ cur' = f
          /\ candidates' = candidates \ {f}
          /\ arg' = f
          /\ attempts' = [attempts EXCEPT ![f] = @ + 1]
    /\ retrying' = FALSE
    /\ exc' = NoExc
    /\ pc' = "enter"
    /\ UNCHANGED <<itemVars, envVars, structure, cache_items, cache_structures, stats,
                   calculated_folders, processing_folders, processed,
                   stack, ret, spent, now, runs, result, failed, history, consecutive>>

(***************************************************************************)
(* _calculate_folder_size_recursive                                        *)
(***************************************************************************)
(* The call on folder f raises: a failure injected on the method, as the   *)
(* tests do by patching it                                                 *)
Raises(f) ==
    \/ fault[f] \in ExcKinds
    \/ fault[f] = "RateLimitOnce" /\ f \notin spent

Raised(f) == IF fault[f] = "RateLimitOnce" THEN "RateLimitError" ELSE fault[f]

(* Deliver with the returned size of the subfolder left out of the sum *)
DeliverDroppingChildSize(stk, r) ==
    /\ ret' = r
    /\ IF stk = << >>
       THEN /\ stack' = stk
            /\ processed' = processed + 1
            /\ pc' = "loop"
       ELSE /\ stack' = [stk EXCEPT ![Len(stk)] =
                            [@ EXCEPT !.folder_count = @ + 1,
                                      !.idx = @ + 1]]
            /\ processed' = processed
            /\ pc' = "children"

(* A return of value r to the caller: the frame on top of stk, or the      *)
(* candidate loop when there is none                                       *)
Deliver(stk, r) ==
    /\ ret' = r
    /\ IF stk = << >>
       THEN /\ stack' = stk
            /\ processed' = processed + 1
            /\ pc' = "loop"
       ELSE /\ stack' = [stk EXCEPT ![Len(stk)] =
                            [@ EXCEPT !.total_size = @ + r,
                                      !.folder_count = @ + 1,
                                      !.idx = @ + 1]]
            /\ processed' = processed
            /\ pc' = "children"

RaiseFault ==
    /\ pc = "enter"
    /\ Raises(arg)
    /\ exc' = [kind |-> Raised(arg), origin |-> arg]
    /\ spent' = IF fault[arg] = "RateLimitOnce" THEN spent \cup {arg} ELSE spent
    /\ pc' = "unwind"
    /\ UNCHANGED <<itemVars, envVars, structure, cache_items, cache_structures, stats,
                   calculated_folders, processing_folders, candidates,
                   cur, retrying, processed, arg, stack, ret, now, runs, result,
                   ghostVars>>

(* InProgress with no guard at all *)
InProgressNever(f) == FALSE

(* InProgress that only notices the folder calling itself *)
InProgressCallerOnly(f) == stack # << >> /\ stack[Len(stack)].folder = f

(* lines 168-171 *)
InProgress(f) == f \in processing_folders

CircularReference ==
    /\ pc = "enter"
    /\ ~Raises(arg)
    /\ InProgress(arg)
    /\ Deliver(stack, 0)
    /\ UNCHANGED <<itemVars, envVars, structure, cache_items, cache_structures, stats,
                   calculated_folders, processing_folders, candidates,
                   cur, retrying, arg, exc, spent, now, runs, result, ghostVars>>

(* RunMemoHit that hands 0 to the caller *)
RunMemoHitReturningZero ==
    /\ pc = "enter"
    /\ ~Raises(arg)
    /\ ~InProgress(arg)
    /\ calculated_folders[arg] # None
    /\ stats' = [stats EXCEPT !.cache_hits = @ + 1]
    /\ Deliver(stack, 0)
    /\ UNCHANGED <<itemVars, envVars, structure, cache_items, cache_structures,
                   calculated_folders, processing_folders, candidates,
                   cur, retrying, arg, exc, spent, now, runs, result, ghostVars>>

(* lines 173-176 *)
RunMemoHit ==
    /\ pc = "enter"
    /\ ~Raises(arg)
    /\ ~InProgress(arg)
    /\ calculated_folders[arg] # None
    /\ stats' = [stats EXCEPT !.cache_hits = @ + 1]
    /\ Deliver(stack, Val(calculated_folders[arg]))
    /\ UNCHANGED <<itemVars, envVars, structure, cache_items, cache_structures,
                   calculated_folders, processing_folders, candidates,
                   cur, retrying, arg, exc, spent, now, runs, result, ghostVars>>

(* line 180 *)
CachedUsable(f) ==
    LET cached_folder == get_item(f) IN
    /\ cached_folder # None
    /\ Val(cached_folder).calculated_size # None
    /\ ~_should_recalculate(Val(cached_folder).calculated_size,
                            Val(cached_folder).last_scanned, Kids(f))

(* line 193 *)
LiveUsable(f) ==
    /\ calculated_size[f] # None
    /\ ~_should_recalculate(calculated_size[f], last_scanned[f], Kids(f))

(* PersistentCacheHit that counts the folder as processed *)
PersistentCacheHitCountingProcessed ==
    /\ pc = "enter"
    /\ ~Raises(arg)
    /\ ~InProgress(arg)
    /\ calculated_folders[arg] = None
    /\ CachedUsable(arg)
    /\ LET cached_folder == Val(get_item(arg)) IN
          /\ calculated_size' = [calculated_size EXCEPT ![arg] = cached_folder.calculated_size]
          /\ file_count' = [file_count EXCEPT ![arg] = cached_folder.file_count]
          /\ folder_count' = [folder_count EXCEPT ![arg] = cached_folder.folder_count]
          /\ last_scanned' = [last_scanned EXCEPT ![arg] = cached_folder.last_scanned]
          /\ scan_complete' = [scan_complete EXCEPT ![arg] = TRUE]
          /\ calculated_folders' = [calculated_folders EXCEPT ![arg] = cached_folder.calculated_size]
          /\ Deliver(stack, Val(cached_folder.calculated_size))
    /\ stats' = [stats EXCEPT !.cache_hits = @ + 1, !.processed_items = @ + 1]
    /\ cache_items' = get_item_table(arg)
    /\ UNCHANGED <<envVars, structure, cache_structures, processing_folders,
                   candidates, cur, retrying, arg, exc, spent, now,
                   runs, result, ghostVars>>

(* lines 178-190 *)
PersistentCacheHit ==
    /\ pc = "enter"
    /\ ~Raises(arg)
    /\ ~InProgress(arg)
    /\ calculated_folders[arg] = None
    /\ CachedUsable(arg)
    /\ LET cached_folder == Val(get_item(arg)) IN
          /\ calculated_size' = [calculated_size EXCEPT ![arg] = cached_folder.calculated_size]
          /\ file_count' = [file_count EXCEPT ![arg] = cached_folder.file_count]
          /\ folder_count' = [folder_count EXCEPT ![arg] = cached_folder.folder_count]
          /\ last_scanned' = [last_scanned EXCEPT ![arg] = cached_folder.last_scanned]
          /\ scan_complete' = [scan_complete EXCEPT ![arg] = TRUE]
          /\ calculated_folders' = [calculated_folders EXCEPT ![arg] = cached_folder.calculated_size]
          /\ Deliver(stack, Val(cached_folder.calculated_size))
    /\ stats' = [stats EXCEPT !.cache_hits = @ + 1]
    /\ cache_items' = get_item_table(arg)
    /\ UNCHANGED <<envVars, structure, cache_structures, processing_folders,
                   candidates, cur, retrying, arg, exc, spent, now,
                   runs, result, ghostVars>>

(* lines 192-196 *)
InMemoryHit ==
    /\ pc = "enter"
    /\ ~Raises(arg)
    /\ ~InProgress(arg)
    /\ calculated_folders[arg] = None
    /\ ~CachedUsable(arg)
    /\ LiveUsable(arg)
    /\ calculated_folders' = [calculated_folders EXCEPT ![arg] = calculated_size[arg]]
    /\ stats' = [stats EXCEPT !.cache_hits = @ + 1]
    /\ Deliver(stack, Val(calculated_size[arg]))
    /\ cache_items' = get_item_table(arg)
    /\ UNCHANGED <<itemVars, envVars, structure, cache_structures, processing_folders,
                   candidates, cur, retrying, arg, exc, spent, now,
                   runs, result, ghostVars>>

NewFrame(f) == [folder |-> f, idx |-> 1, total_size |-> 0, file_count |-> 0,
                folder_count |-> 0]

(* lines 198-204; a call deeper than the interpreter's recursion limit     *)
(* raises RecursionError instead                                           *)
BeginCompute ==
    /\ pc = "enter"
    /\ ~Raises(arg)
    /\ ~InProgress(arg)
    /\ calculated_folders[arg] = None
    /\ ~CachedUsable(arg)
    /\ ~LiveUsable(arg)
    /\ cache_items' = get_item_table(arg)
    /\ IF Len(stack) < RecursionLimit
       THEN /\ processing_folders' = processing_folders \cup {arg}
            /\ stack' = Append(stack, NewFrame(arg))
            /\ pc' = "children"
            /\ exc' = exc
       ELSE /\ exc' = [kind |-> "Exception", origin |-> arg]
            /\ pc' = "unwind"
            /\ UNCHANGED <<processing_folders, stack>>
    /\ UNCHANGED <<itemVars, envVars, structure, cache_structures, stats,
                   calculated_folders, candidates, cur, retrying,
                   processed, arg, ret, spent, now, runs, result, ghostVars>>

Top == stack[Len(stack)]

HasChild == Top.idx <= Len(children[Top.folder])

Child == children[Top.folder][Top.idx]

(* lines 215-219 *)
VisitFile ==
    /\ pc = "children"
    /\ HasChild
    /\ ~is_folder(Child)
    /\ stack' = [stack EXCEPT ![Len(stack)] =
                    [@ EXCEPT !.total_size = @ + size(Child),
                              !.file_count = @ + 1,
                              !.idx = @ + 1]]
    /\ UNCHANGED <<itemVars, envVars, structure, cache_items, cache_structures, stats,
                   calculated_folders, processing_folders, pc, candidates, cur, retrying, processed, arg, ret, exc, spent, now, runs,
                   result, ghostVars>>

(* lines 208-210: the recursive call *)
VisitFolder ==
    /\ pc = "children"
    /\ HasChild
    /\ is_folder(Child)
    /\ arg' = Child
    /\ pc' = "enter"
    /\ UNCHANGED <<itemVars, envVars, structure, cache_items, cache_structures, stats,
                   calculated_folders, processing_folders, candidates,
                   cur, retrying, processed, stack, ret, exc, spent, now, runs, result,
                   ghostVars>>

RECURSIVE SumOver(_, _)
SumOver(fn, S) ==
    IF S = {} THEN 0
    ELSE LET g == CHOOSE h \in S : TRUE IN fn[g] + SumOver(fn, S \ {g})

(* NestedCount with the second loop left out: direct children only *)
NestedCountDirectOnly(fn, f) == 0

(* lines 225-229: the nested counts of the direct subfolders *)
NestedCount(fn, f) == SumOver(fn, Kids(f) \cap Folders)

(* Commit that does not enter the folder in the run's memo *)
CommitForgettingMemo ==
    /\ pc = "children"
    /\ ~HasChild
    /\ LET f == Top.folder
           total_size == Top.total_size
           files == Top.file_count + NestedCount(file_count, f)
           folders == Top.folder_count + NestedCount(folder_count, f)
       IN /\ calculated_size' = [calculated_size EXCEPT ![f] = Some(total_size)]
          /\ file_count' = [file_count EXCEPT ![f] = files]
          /\ folder_count' = [folder_count EXCEPT ![f] = folders]
          /\ last_scanned' = [last_scanned EXCEPT ![f] = Some(now)]
          /\ scan_complete' = [scan_complete EXCEPT ![f] = TRUE]
          /\ calculated_folders' = calculated_folders
          /\ stats' = [stats EXCEPT !.processed_items = @ + 1,
                                    !.total_size_calculated = @ + total_size]
          /\ cache_items' = cache_item(cache_items, f, Some(total_size), files, folders,
                                       Some(now))
          /\ processing_folders' = processing_folders \ {f}
          /\ Deliver(SubSeq(stack, 1, Len(stack) - 1), total_size)
    /\ UNCHANGED <<envVars, structure, cache_structures, candidates,
                   cur, retrying, arg, exc, spent, now, runs, result, ghostVars>>

(* Commit that gives up the folder's result when the cache write fails *)
CommitOnlyWhenCached ==
    /\ pc = "children"
    /\ ~HasChild
    /\ LET f == Top.folder
           total_size == Top.total_size
           files == Top.file_count + NestedCount(file_count, f)
           folders == Top.folder_count + NestedCount(folder_count, f)
           written == _serialize_item_ok(f) /\ HasTable("drive_items")
       IN /\ calculated_size' = [calculated_size EXCEPT ![f] = IF written THEN Some(total_size) ELSE @]
          /\ file_count' = [file_count EXCEPT ![f] = files]
          /\ folder_count' = [folder_count EXCEPT ![f] = folders]
          /\ last_scanned' = [last_scanned EXCEPT ![f] = Some(now)]
          /\ scan_complete' = [scan_complete EXCEPT ![f] = written]
          /\ calculated_folders' = [calculated_folders EXCEPT ![f] = Some(total_size)]
          /\ stats' = [stats EXCEPT !.processed_items = @ + 1,
                                    !.total_size_calculated = @ + total_size]
          /\ cache_items' = cache_item(cache_items, f, Some(total_size), files, folders,
                                       Some(now))
          /\ processing_folders' = processing_folders \ {f}
          /\ Deliver(SubSeq(stack, 1, Len(stack) - 1), total_size)
    /\ UNCHANGED <<envVars, structure, cache_structures, candidates,
                   cur, retrying, arg, exc, spent, now, runs, result, ghostVars>>

(* lines 225-254: the second loop, the commit, the finally clause, return *)
Commit ==
    /\ pc = "children"
    /\ ~HasChild
    /\ LET f == Top.folder
           total_size == Top.total_size
           files == Top.file_count + NestedCount(file_count, f)
           folders == Top.folder_count + NestedCount(folder_count, f)
       IN /\ calculated_size' = [calculated_size EXCEPT ![f] = Some(total_size)]
          /\ file_count' = [file_count EXCEPT ![f] = files]
          /\ folder_count' = [folder_count EXCEPT ![f] = folders]
          /\ last_scanned' = [last_scanned EXCEPT ![f] = Some(now)]
          /\ scan_complete' = [scan_complete EXCEPT ![f] = TRUE]
          /\ calculated_folders' = [calculated_folders EXCEPT ![f] = Some(total_size)]
          /\ stats' = [stats EXCEPT !.processed_items = @ + 1,
                                    !.total_size_calculated = @ + total_size]
          /\ cache_items' = cache_item(cache_items, f, Some(total_size), files, folders,
                                       Some(now))
          /\ processing_folders' = processing_folders \ {f}
          /\ Deliver(SubSeq(stack, 1, Len(stack) - 1), total_size)
    /\ UNCHANGED <<envVars, structure, cache_structures, candidates,
                   cur, retrying, arg, exc, spent, now, runs, result, ghostVars>>

(* Unwind that leaves the marker of the frame it drops *)
UnwindKeepingMarker ==
    /\ pc = "unwind"
    /\ stack # << >>
    /\ stack' = SubSeq(stack, 1, Len(stack) - 1)
    /\ UNCHANGED <<itemVars, envVars, structure, cache_items, cache_structures, stats,
                   calculated_folders, processing_folders, pc, candidates, cur, retrying,
                   processed, arg, ret, exc, spent, now, runs, result, ghostVars>>

(* lines 252-254: an exception leaves a frame through its finally clause *)
Unwind ==
    /\ pc = "unwind"
    /\ stack # << >>
    /\ processing_folders' = processing_folders \ {Top.folder}
    /\ stack' = SubSeq(stack, 1, Len(stack) - 1)
    /\ UNCHANGED <<itemVars, envVars, structure, cache_items, cache_structures, stats,
                   calculated_folders, pc, candidates, cur, retrying,
                   processed, arg, ret, exc, spent, now, runs, result, ghostVars>>

(***************************************************************************)
(* The except clauses of the candidate loop (lines 112-138)                *)
(***************************************************************************)
(* ExceptClause whose last clause takes SizeCalculationError only *)
ExceptClauseSizeCalculationOnly(kind, in_retry) ==
    IF in_retry THEN "retry_failed"
    ELSE IF kind = "PermissionError" THEN "permission"
    ELSE IF kind = "RateLimitError" THEN "rate_limit"
    ELSE "uncaught"

(* The clause that takes an exception of the given kind *)
ExceptClause(kind, in_retry) ==
    IF in_retry THEN "retry_failed"                       \* line 131: except Exception
    ELSE IF kind = "PermissionError" THEN "permission"    \* line 112
    ELSE IF kind = "RateLimitError" THEN "rate_limit"     \* line 122
    ELSE "unexpected"                                     \* line 135: except Exception

AtHandler(clause) ==
    /\ pc = "unwind"
    /\ stack = << >>
    /\ ExceptClause(exc.kind, retrying) = clause

(* HandlePermissionError that leaves calculated_size as it is *)
HandlePermissionErrorKeepingSize ==
    /\ AtHandler("permission")
    /\ stats' = [stats EXCEPT !.permission_errors = @ + 1, !.errors_encountered = @ + 1]
    /\ scan_complete' = [scan_complete EXCEPT ![cur] = TRUE]
    /\ last_scanned' = [last_scanned EXCEPT ![cur] = Some(now)]
    /\ failed' = failed \cup {cur}
    /\ exc' = NoExc
    /\ pc' = "loop"
    /\ UNCHANGED <<calculated_size, file_count, folder_count, envVars, structure,
                   cache_items, cache_structures, calculated_folders, processing_folders,
                   candidates, cur, retrying, processed, arg, stack,
                   ret, spent, now, runs, result, attempts, history, consecutive>>

(* lines 112-120 *)
HandlePermissionError ==
    /\ AtHandler("permission")
    /\ stats' = [stats EXCEPT !.permission_errors = @ + 1, !.errors_encountered = @ + 1]
    /\ scan_complete' = [scan_complete EXCEPT ![cur] = TRUE]
    /\ calculated_size' = [calculated_size EXCEPT ![cur] = Some(0)]
    /\ last_scanned' = [last_scanned EXCEPT ![cur] = Some(now)]
    /\ failed' = failed \cup {cur}
    /\ exc' = NoExc
    /\ pc' = "loop"
    /\ UNCHANGED <<file_count, folder_count, envVars, structure, cache_items,
                   cache_structures, calculated_folders, processing_folders,
                   candidates, cur, retrying, processed, arg, stack,
                   ret, spent, now, runs, result, attempts, history, consecutive>>

(* HandleRateLimitError that retries without counting the failure *)
HandleRateLimitErrorUncounted ==
    /\ AtHandler("rate_limit")
    /\ stats' = [stats EXCEPT !.errors_encountered = @ + 1]
    /\ retrying' = TRUE
    /\ arg' = cur
    /\ attempts' = [attempts EXCEPT ![cur] = @ + 1]
    /\ exc' = NoExc
    /\ pc' = "enter"
    /\ UNCHANGED <<itemVars, envVars, structure, cache_items, cache_structures,
                   calculated_folders, processing_folders, candidates,
                   cur, processed, stack, ret, spent, now, runs, result, failed, history,
                   consecutive>>

(* lines 122-129: count, sleep, call again *)
HandleRateLimitError ==
    /\ AtHandler("rate_limit")
    /\ stats' = [stats EXCEPT !.rate_limit_errors = @ + 1, !.errors_encountered = @ + 1]
    /\ retrying' = TRUE
    /\ arg' = cur
    /\ attempts' = [attempts EXCEPT ![cur] = @ + 1]
    /\ exc' = NoExc
    /\ pc' = "enter"
    /\ UNCHANGED <<itemVars, envVars, structure, cache_items, cache_structures,
                   calculated_folders, processing_folders, candidates,
                   cur, processed, stack, ret, spent, now, runs, result, failed, history,
                   consecutive>>

(* lines 131-133 *)
HandleRetryFailed ==
    /\ AtHandler("retry_failed")
    /\ failed' = failed \cup {cur}
    /\ exc' = NoExc
    /\ pc' = "loop"
    /\ UNCHANGED <<itemVars, envVars, structure, cache_items, cache_structures, stats,
                   calculated_folders, processing_folders, candidates,
                   cur, retrying, processed, arg, stack, ret, spent, now, runs, result,
                   attempts, history, consecutive>>

(* lines 135-138; an exception no clause of the loop takes reaches the     *)
(* outer clause at lines 154-156, which raises SizeCalculationError        *)
HandleUnexpected ==
    /\ pc = "unwind"
    /\ stack = << >>
    /\ ExceptClause(exc.kind, retrying) \notin {"permission", "rate_limit", "retry_failed"}
    /\ failed' = failed \cup {cur}
    /\ exc' = NoExc
    /\ IF ExceptClause(exc.kind, retrying) = "unexpected"
       THEN /\ stats' = [stats EXCEPT !.errors_encountered = @ + 1]
            /\ pc' = "loop"
            /\ result' = result
       ELSE /\ stats' = stats
            /\ pc' = "idle"
            /\ result' = "raised"
    /\ UNCHANGED <<itemVars, envVars, structure, cache_items, cache_structures,
                   calculated_folders, processing_folders, candidates,
                   cur, retrying, processed, arg, stack, ret, spent, now, runs,
                   attempts, history, consecutive>>

(***************************************************************************)
(* The end of the run (lines 140-152)                                      *)
(***************************************************************************)
(* Python truth value of an Optional[int] *)
Truthy(o) == o # None /\ Val(o) # 0

(* _update_structure_stats, the value of total_size *)
total_calculated_size ==
    SumOver([f \in Folders |-> IF Truthy(calculated_size[f]) THEN Val(calculated_size[f]) ELSE 0],
            Folders \cap all_items)
    + SumOfSizes(Files \cap all_items)

_update_structure_stats ==
    [total_files |-> Cardinality(Files \cap all_items),
     total_folders |-> Cardinality(Folders \cap all_items),
     total_size |-> total_calculated_size,
     scan_timestamp |-> Some(now),
     scan_complete |-> TRUE]

(* DriveCache.cache_structure: the row afterwards *)
cache_structure(row, st) ==
    IF ~cache_enabled THEN row
    ELSE IF ~_serialize_structure_ok THEN row
    ELSE IF ~HasTable("drive_structures") THEN row
    ELSE Some([scan_complete |-> st.scan_complete, total_files |-> st.total_files,
               total_folders |-> st.total_folders, total_size |-> st.total_size,
               all_items |-> all_items, calculated_size |-> calculated_size,
               expires_at |-> _calculate_expiry])

FinishRun ==
    /\ pc = "loop"
    /\ candidates = {}
    /\ structure' = _update_structure_stats
    /\ cache_structures' = cache_structure(cache_structures, _update_structure_stats)
    /\ result' = "returned"
    /\ pc' = "idle"
    /\ history' = [history EXCEPT ![Len(history)] =
                      [@ EXCEPT !.done = TRUE, !.fields = Fields,
                                !.processed_items = stats.processed_items]]
    /\ consecutive' = TRUE
    /\ UNCHANGED <<itemVars, envVars, cache_items, stats, calculated_folders,
                   processing_folders, candidates, cur, retrying,
                   processed, arg, stack, ret, exc, spent, now, runs, attempts, failed>>

(* Time passes between two runs: the cached rows expire *)
Tick ==
    /\ pc = "idle"
    /\ runs > 0
    /\ now < MaxTicks * (ttl_hours + 1)
    /\ now' = now + ttl_hours + 1
    /\ consecutive' = FALSE
    /\ UNCHANGED <<itemVars, envVars, structure, cache_items, cache_structures, stats,
                   calculated_folders, processing_folders, pc, candidates, cur, retrying, processed, arg, stack, ret, exc, spent,
                   runs, result, attempts, failed, history>>

Next ==
    \/ \E force \in BOOLEAN : StartRun(force)
    \/ NextCandidate
    \/ RaiseFault
    \/ CircularReference
    \/ RunMemoHit
    \/ PersistentCacheHit
    \/ InMemoryHit
    \/ BeginCompute
    \/ VisitFile
    \/ VisitFolder
    \/ Commit
    \/ Unwind
    \/ HandlePermissionError
    \/ HandleRateLimitError
    \/ HandleRetryFailed
    \/ HandleUnexpected
    \/ FinishRun
    \/ Tick

Spec == Init /\ [][Next]_vars

TypeOK ==
    /\ pc \in {"idle", "loop", "enter", "children", "unwind"}
    /\ result \in {"none", "returned", "raised"}
    /\ processing_folders \subseteq Folders
    /\ Len(stack) <= RecursionLimit

(***************************************************************************)
(* The run under the scheduling of the program: a run that has started     *)
(* keeps taking steps. Checked on the structures where folder B alone may  *)
(* fail, the document is at the root and the cache is enabled.             *)
(***************************************************************************)
RunStep ==
    \/ NextCandidate
    \/ RaiseFault
    \/ CircularReference
    \/ RunMemoHit
    \/ PersistentCacheHit
    \/ InMemoryHit
    \/ BeginCompute
    \/ VisitFile
    \/ VisitFolder
    \/ Commit
    \/ Unwind
    \/ HandlePermissionError
    \/ HandleRateLimitError
    \/ HandleRetryFailed
    \/ HandleUnexpected
    \/ FinishRun

LiveInit ==
    /\ Init
    /\ cache_enabled
    /\ Faulty(fault) \subseteq {"B"}
    /\ "d" \notin Kids("A")

LiveSpec == LiveInit /\ [][Next]_vars /\ WF_vars(RunStep)

(***************************************************************************)
(* calculate_incremental_sizes: the candidates are the folders that        *)
(* _should_recalculate selects, each candidate's cache row is deleted      *)
(* before the call, and the loop has a single except clause.               *)
(***************************************************************************)
(* invalidate_item without the check of `enabled` *)
invalidate_item_unguarded(table, id) == [table EXCEPT ![id] = None]

(* DriveCache.invalidate_item: the table afterwards *)
invalidate_item(table, id) ==
    IF ~cache_enabled THEN table
    ELSE [table EXCEPT ![id] = None]

(* lines 331-335 *)
folders_to_update ==
    {f \in Folders : _should_recalculate(calculated_size[f], last_scanned[f], Kids(f))}

(* lines 326-345; with no folder to update the method returns at once *)
StartIncremental ==
    /\ pc = "idle"
    /\ runs < MaxRuns
    /\ stats' = ZeroStats
    /\ calculated_folders' = [f \in Folders |-> None]
    /\ processing_folders' = {}
    /\ candidates' = folders_to_update
    /\ processed' = 0
    /\ IF folders_to_update = {}
       THEN /\ pc' = "idle"
            /\ result' = "returned"
       ELSE /\ pc' = "loop"
            /\ result' = "none"
    /\ runs' = runs + 1
    /\ attempts' = [f \in Folders |-> 0]
    /\ failed' = {}
    /\ history' = Append(history, [candidates |-> folders_to_update,
                                   uncalculated |-> folders_to_calculate(FALSE),
                                   consecutive |-> consecutive,
                                   done |-> folders_to_update = {}, fields |-> Fields,
                                   processed_items |-> 0])
    /\ UNCHANGED <<itemVars, envVars, structure, cache_items, cache_structures,
                   cur, retrying, arg, stack, ret, exc, spent, now, consecutive>>

(* lines 349-355: the next folder, its cache row deleted, the call *)
NextIncrementalCandidate ==
    /\ pc = "loop"
    /\ \E f \in candidates :
          /\ cur' = f
          /\ candidates' = candidates \ {f}
          /\ cache_items' = invalidate_item(cache_items, f)
          /\ arg' = f
          /\ attempts' = [attempts EXCEPT ![f] = @ + 1]
    /\ retrying' = FALSE
    /\ exc' = NoExc
    /\ pc' = "enter"
    /\ UNCHANGED <<itemVars, envVars, structure, cache_structures, stats,
                   calculated_folders, processing_folders, processed,
                   stack, ret, spent, now, runs, result, failed, history, consecutive>>

(* lines 369-372: the only except clause of the loop *)
HandleIncrementalException ==
    /\ pc = "unwind"
    /\ stack = << >>
    /\ stats' = [stats EXCEPT !.errors_encountered = @ + 1]
    /\ failed' = failed \cup {cur}
    /\ exc' = NoExc
    /\ pc' = "loop"
    /\ UNCHANGED <<itemVars, envVars, structure, cache_items, cache_structures,
                   calculated_folders, processing_folders, candidates,
                   cur, retrying, processed, arg, stack, ret, spent, now, runs, result,
                   attempts, history, consecutive>>

(* lines 374-387 *)
FinishIncremental ==
    /\ pc = "loop"
    /\ candidates = {}
    /\ structure' = _update_structure_stats
    /\ cache_structures' = cache_structure(cache_structures, _update_structure_stats)
    /\ result' = "returned"
    /\ pc' = "idle"
    /\ history' = [history EXCEPT ![Len(history)] =
                      [@ EXCEPT !.done = TRUE, !.fields = Fields,
                                !.processed_items = stats.processed_items]]
    /\ consecutive' = TRUE
    /\ UNCHANGED <<itemVars, envVars, cache_items, stats, calculated_folders,
                   processing_folders, candidates, cur, retrying,
                   processed, arg, stack, ret, exc, spent, now, runs, attempts, failed>>

(* The folder that holds file i *)
ParentOf(i) == CHOOSE f \in Folders : i \in Kids(f)

(* The caller builds a new DriveStructure of the drive from fresh items,   *)
(* as the tests do before the incremental run: file y has been moved to    *)
(* folder g meanwhile, and the new items carry no aggregation result. The  *)
(* cache database stays.                                                   *)
Rescan ==
    /\ pc = "idle"
    /\ structure.scan_complete
    /\ \E g \in Folders \ {ParentOf("y")} :
          children' = [f \in Folders |->
                          SelectSeq(children[f], LAMBDA i : i # "y")
                              \o (IF f = g THEN <<"y">> ELSE << >>)]
    /\ calculated_size' = [f \in Folders |-> None]
    /\ file_count' = [f \in Folders |-> 0]
    /\ folder_count' = [f \in Folders |-> 0]
    /\ last_scanned' = [f \in Folders |-> Some(now)]
    /\ scan_complete' = [f \in Folders |-> FALSE]
    /\ structure' = [total_files |-> Cardinality(Files), total_folders |-> Cardinality(Folders),
                     total_size |-> SumOfSizes(Files), scan_timestamp |-> None,
                     scan_complete |-> FALSE]
    /\ consecutive' = FALSE
    /\ UNCHANGED <<modified_time, cache_enabled, fault, database, call, stored,
                   all_items, drive, scan, conns, cache_items, cache_structures, stats,
                   calculated_folders, processing_folders, pc, candidates, cur, retrying,
                   processed, arg, stack, ret, exc, spent, now, runs, result, attempts,
                   failed, history>>

IncrementalNext ==
    \/ StartIncremental
    \/ NextIncrementalCandidate
    \/ RaiseFault
    \/ CircularReference
    \/ RunMemoHit
    \/ PersistentCacheHit
    \/ InMemoryHit
    \/ BeginCompute
    \/ VisitFile
    \/ VisitFolder
    \/ Commit
    \/ Unwind
    \/ HandleIncrementalException
    \/ FinishIncremental
    \/ Rescan

(* Checked with the document at the root and at most one failing folder *)
IncrementalInit ==
    /\ Init
    /\ "d" \notin Kids("A")
    /\ Cardinality(Faulty(fault)) <= 1
    /\ \A f \in Folders : fault[f] # "Exception"

IncrementalSpec == IncrementalInit /\ [][IncrementalNext]_vars

(***************************************************************************)
(* _should_recalculate as a function of its inputs: one folder with its    *)
(* fields, its children's modification times and the clock drawn from     *)
(* small sets, and one call.                                               *)
(***************************************************************************)
(* DriveItem.from_drive_api parses modifiedTime together with its UTC      *)
(* offset, so the value is timezone-aware; datetime.now(), and with it     *)
(* last_scanned, is naive.                                                 *)
Aware(t) == <<t, "+00:00">>

is_aware(o) == Len(o) = 2

(* lines 422-426 from the k-th child on: comparing an aware modified_time  *)
(* with the naive last_scanned raises TypeError                            *)
RECURSIVE CompareRaises(_, _, _)
CompareRaises(kids, k, ls) ==
    IF k > Len(kids) THEN FALSE
    ELSE LET mt == modified_time[kids[k]] IN
         IF mt = None THEN CompareRaises(kids, k + 1, ls)
         ELSE IF is_aware(mt) THEN TRUE
         ELSE IF Val(mt) > Val(ls) THEN FALSE
         ELSE CompareRaises(kids, k + 1, ls)

(* What a call of _should_recalculate on the live folder f does *)
_should_recalculate_outcome(f) ==
    IF /\ calculated_size[f] # None
       /\ last_scanned[f] # None
       /\ ~((now - Val(last_scanned[f])) < ttl_hours)
       /\ CompareRaises(children[f], 1, last_scanned[f])
    THEN "TypeError"
    ELSE IF _should_recalculate(calculated_size[f], last_scanned[f], Kids(f))
    THEN "True"
    ELSE "False"

(* A calculator just constructed, no run started *)
CalculatorIdle ==
    /\ stats = ZeroStats
    /\ calculated_folders = [f \in Folders |-> None]
    /\ processing_folders = {}
    /\ pc = "idle"
    /\ candidates = {}
    /\ cur = "none"
    /\ retrying = FALSE
    /\ processed = 0
    /\ arg = "none"
    /\ stack = << >>
    /\ ret = 0
    /\ exc = NoExc
    /\ fault = [f \in Folders |-> "none"]
    /\ spent = {}
    /\ runs = 0
    /\ result = "none"
    /\ attempts = [f \in Folders |-> 0]
    /\ failed = {}
    /\ history = << >>
    /\ consecutive = FALSE

ClockChoices == {1, ttl_hours, 2 * ttl_hours}

ModifiedChoices == {None, Some(0), Some(ttl_hours + 6), Aware(0), Aware(ttl_hours + 6)}

ShouldRecalculateInit ==
    /\ children \in {[f \in Folders |-> IF f = "A" THEN q ELSE << >>] :
                        q \in {<< >>, <<"x">>, <<"x", "y">>}}
    /\ modified_time \in {[i \in Items |-> IF i = "x" THEN mx ELSE IF i = "y" THEN my ELSE None] :
                             mx \in ModifiedChoices, my \in ModifiedChoices}
    /\ calculated_size \in {[f \in Folders |-> IF f = "A" THEN cs ELSE None] :
                               cs \in {None, Some(1000)}}
    /\ last_scanned \in {[f \in Folders |-> IF f = "A" THEN ls ELSE None] :
                            ls \in {None, Some(0)}}
    /\ now \in ClockChoices
    /\ file_count = [f \in Folders |-> 0]
    /\ folder_count = [f \in Folders |-> 0]
    /\ scan_complete = [f \in Folders |-> FALSE]
    /\ structure = [total_files |-> Cardinality(Files), total_folders |-> Cardinality(Folders),
                    total_size |-> SumOfSizes(Files), scan_timestamp |-> None,
                    scan_complete |-> FALSE]
    /\ cache_enabled = TRUE
    /\ cache_items = [f \in Folders |-> None]
    /\ cache_structures = None
    /\ database = CurrentDatabase
    /\ call = NoCall
    /\ stored = NothingStored
    /\ all_items = Items
    /\ drive = NoDrive
    /\ scan = NoScan
    /\ conns = NoConns
    /\ CalculatorIdle

(* The call: `cur` is the folder asked about, `result` what the call did *)
CallShouldRecalculate ==
    /\ pc = "idle"
    /\ \E f \in Folders :
          /\ cur' = f
          /\ result' = _should_recalculate_outcome(f)
    /\ pc' = "decided"
    /\ UNCHANGED <<itemVars, envVars, structure, cache_items, cache_structures, stats,
                   calculated_folders, processing_folders, candidates, retrying,
                   processed, arg, stack, ret, exc, spent, now, runs, ghostVars>>

ShouldRecalculateNext == CallShouldRecalculate

ShouldRecalculateSpec == ShouldRecalculateInit /\ [][ShouldRecalculateNext]_vars

(***************************************************************************)
(* DriveCache on its own: a database file left by an earlier session (or   *)
(* none), the constructor, and the public operations called in any order.  *)
(* pc = "closed" means no DriveCache object exists, pc = "idle" that one   *)
(* has been constructed.                                                   *)
(***************************************************************************)
(* DriveCache.get_structure: the value returned *)
get_structure ==
    IF ~cache_enabled THEN None
    ELSE IF ~HasTable("drive_structures") THEN None
    ELSE IF cache_structures = None THEN None
    ELSE IF _is_expired(Val(cache_structures).expires_at) THEN None
    ELSE cache_structures

(* DriveCache.get_structure: the row afterwards *)
get_structure_table ==
    IF cache_enabled /\ HasTable("drive_structures") /\ cache_structures # None
          /\ _is_expired(Val(cache_structures).expires_at)
    THEN None
    ELSE cache_structures

(* clear_expired: DELETE ... WHERE expires_at < now *)
ExpiredItems == {f \in Folders : cache_items[f] # None /\ Val(cache_items[f]).expires_at < now}

ExpiredStructures ==
    IF cache_structures # None /\ Val(cache_structures).expires_at < now
    THEN {StructureKey} ELSE {}

clear_expired_items ==
    IF ~cache_enabled THEN cache_items
    ELSE [f \in Folders |-> IF f \in ExpiredItems THEN None ELSE cache_items[f]]

clear_expired_structures ==
    IF ~cache_enabled THEN cache_structures
    ELSE IF ExpiredStructures # {} THEN None ELSE cache_structures

clear_expired_count ==
    IF ~cache_enabled THEN 0
    ELSE Cardinality(ExpiredItems) + Cardinality(ExpiredStructures)

(* The folders a caller stores, and the aggregation results it stores *)
CacheKeys == {"A", "B"}

PutSizes == {Some(1024), Some(3072)}

ItemValue(cs) == [calculated_size |-> cs, file_count |-> 1, folder_count |-> 0,
                  last_scanned |-> Some(now)]

StructureValues ==
    {[scan_complete |-> sc, total_files |-> Cardinality(Files),
      total_folders |-> Cardinality(Folders), total_size |-> SumOfSizes(Files)] :
        sc \in BOOLEAN}

(* The fields of a row that came from the pickled object *)
ItemFields(row) == [calculated_size |-> row.calculated_size, file_count |-> row.file_count,
                    folder_count |-> row.folder_count, last_scanned |-> row.last_scanned]

StructureFields(row) == [scan_complete |-> row.scan_complete, total_files |-> row.total_files,
                         total_folders |-> row.total_folders, total_size |-> row.total_size]

(* _get_schema_version: 1 when there is no schema_version row *)
_get_schema_version ==
    IF database.schema_version = None THEN 1 ELSE Val(database.schema_version)

(* _migrate_database raises: ALTER TABLE on a table that does not exist *)
MigrationFails ==
    /\ _get_schema_version < SCHEMA_VERSION
    /\ "drive_structures" \notin database.tables

(* _migrate_database and _create_tables: the columns afterwards *)
_migrate_database ==
    IF "drive_structures" \notin database.tables THEN AddedColumns
    ELSE IF _get_schema_version < SCHEMA_VERSION THEN AddedColumns
    ELSE database.added_columns

calcVars == <<itemVars, children, modified_time, fault, structure, stats, calculated_folders,
              processing_folders, candidates, cur, retrying, processed, arg, stack,
              ret, exc, spent, runs, result, ghostVars, all_items, drive, scan, conns>>

(* OpenCache that drops the tables and creates them again *)
OpenCacheRecreating ==
    /\ pc \in {"closed", "idle"}
    /\ ~(cache_enabled /\ MigrationFails)
    /\ IF cache_enabled
       THEN /\ database' = CurrentDatabase
            /\ cache_items' = [f \in Folders |-> None]
            /\ cache_structures' = None
       ELSE UNCHANGED <<database, cache_items, cache_structures>>
    /\ pc' = "idle"
    /\ call' = [op |-> "open", key |-> "none", ret |-> TRUE]
    /\ UNCHANGED <<calcVars, cache_enabled, now, stored>>

(* DriveCache.__init__ with _init_database, when it succeeds *)
OpenCache ==
    /\ pc \in {"closed", "idle"}
    /\ ~(cache_enabled /\ MigrationFails)
    /\ IF cache_enabled
       THEN database' = [tables |-> AllTables, added_columns |-> _migrate_database,
                         schema_version |-> Some(SCHEMA_VERSION)]
       ELSE database' = database
    /\ pc' = "idle"
    /\ call' = [op |-> "open", key |-> "none", ret |-> TRUE]
    /\ UNCHANGED <<calcVars, cache_enabled, cache_items, cache_structures, now, stored>>

(* DriveCache.__init__ when the migration raises: cache_metadata has been  *)
(* created, the exception leaves the constructor                           *)
OpenCacheFails ==
    /\ pc \in {"closed", "idle"}
    /\ cache_enabled
    /\ MigrationFails
    /\ database' = [database EXCEPT !.tables = @ \cup {"cache_metadata"}]
    /\ pc' = "closed"
    /\ call' = [op |-> "open", key |-> "none", ret |-> "OperationalError"]
    /\ UNCHANGED <<calcVars, cache_enabled, cache_items, cache_structures, now, stored>>

CallCacheItem ==
    /\ pc = "idle"
    /\ \E f \in CacheKeys, cs \in PutSizes :
          LET ok == cache_enabled /\ _serialize_item_ok(f) /\ HasTable("drive_items") IN
          /\ cache_items' = cache_item(cache_items, f, cs, 1, 0, Some(now))
          /\ call' = [op |-> "cache_item", key |-> f, ret |-> ok]
          /\ stored' = IF ok THEN [stored EXCEPT ![f] = Some([value |-> ItemValue(cs), at |-> now])]
                       ELSE stored
    /\ UNCHANGED <<calcVars, cache_enabled, cache_structures, database, pc, now>>

CallGetItem ==
    /\ pc = "idle"
    /\ \E f \in CacheKeys :
          /\ call' = [op |-> "get_item", key |-> f, ret |-> get_item(f)]
          /\ cache_items' = get_item_table(f)
    /\ UNCHANGED <<calcVars, cache_enabled, cache_structures, database, pc, now, stored>>

CallCacheStructure ==
    /\ pc = "idle"
    /\ \E st \in StructureValues :
          LET ok == cache_enabled /\ _serialize_structure_ok /\ HasTable("drive_structures") IN
          /\ cache_structures' = cache_structure(cache_structures, st)
          /\ call' = [op |-> "cache_structure", key |-> StructureKey, ret |-> ok]
          /\ stored' = IF ok THEN [stored EXCEPT ![StructureKey] = Some([value |-> st, at |-> now])]
                       ELSE stored
    /\ UNCHANGED <<calcVars, cache_enabled, cache_items, database, pc, now>>

CallGetStructure ==
    /\ pc = "idle"
    /\ call' = [op |-> "get_structure", key |-> StructureKey, ret |-> get_structure]
    /\ cache_structures' = get_structure_table
    /\ UNCHANGED <<calcVars, cache_enabled, cache_items, database, pc, now, stored>>

CallInvalidateItem ==
    /\ pc = "idle"
    /\ \E f \in CacheKeys :
          /\ call' = [op |-> "invalidate_item", key |-> f,
                      ret |-> cache_enabled /\ cache_items[f] # None]
          /\ cache_items' = invalidate_item(cache_items, f)
          /\ stored' = IF cache_enabled THEN [stored EXCEPT ![f] = None] ELSE stored
    /\ UNCHANGED <<calcVars, cache_enabled, cache_structures, database, pc, now>>

CallClearExpired ==
    /\ pc = "idle"
    /\ call' = [op |-> "clear_expired", key |-> "none", ret |-> clear_expired_count]
    /\ cache_items' = clear_expired_items
    /\ cache_structures' = clear_expired_structures
    /\ UNCHANGED <<calcVars, cache_enabled, database, pc, now, stored>>

(* clear_all that leaves the structures table alone *)
CallClearAllItemsOnly ==
    /\ pc = "idle"
    /\ call' = [op |-> "clear_all", key |-> "none", ret |-> cache_enabled]
    /\ IF cache_enabled
       THEN /\ cache_items' = [f \in Folders |-> None]
            /\ database' = [database EXCEPT !.schema_version = None]
            /\ stored' = NothingStored
       ELSE UNCHANGED <<cache_items, database, stored>>
    /\ UNCHANGED <<calcVars, cache_enabled, cache_structures, pc, now>>

(* DriveCache.clear_all: every row of drive_items, drive_structures and    *)
(* cache_metadata is deleted, the schema_version row among them            *)
CallClearAll ==
    /\ pc = "idle"
    /\ call' = [op |-> "clear_all", key |-> "none", ret |-> cache_enabled]
    /\ IF cache_enabled
       THEN /\ cache_items' = [f \in Folders |-> None]
            /\ cache_structures' = None
            /\ database' = [database EXCEPT !.schema_version = None]
            /\ stored' = NothingStored
       ELSE UNCHANGED <<cache_items, cache_structures, database, stored>>
    /\ UNCHANGED <<calcVars, cache_enabled, pc, now>>

(* optimize_cache: clear_expired, the statistics, VACUUM *)
CallOptimizeCache ==
    /\ pc = "idle"
    /\ call' = [op |-> "optimize_cache", key |-> "none", ret |-> cache_enabled]
    /\ cache_items' = clear_expired_items
    /\ cache_structures' = clear_expired_structures
    /\ UNCHANGED <<calcVars, cache_enabled, database, pc, now, stored>>

(* Half a TTL passes *)
CacheTick ==
    /\ now < MaxTicks * (ttl_hours + 1)
    /\ now' = now + (ttl_hours \div 2)
    /\ UNCHANGED <<calcVars, cache_enabled, cache_items, cache_structures, database, pc,
                   call, stored>>

CacheNext ==
    \/ OpenCache
    \/ OpenCacheFails
    \/ CallCacheItem
    \/ CallGetItem
    \/ CallCacheStructure
    \/ CallGetStructure
    \/ CallInvalidateItem
    \/ CallClearExpired
    \/ CallClearAll
    \/ CallOptimizeCache
    \/ CacheTick

(* A path with no database, or a database written under schema version 1  *)
(* (possibly with some of the new columns already added), holding rows     *)
(* stored at time 0                                                        *)
OlderDatabases ==
    {db \in [tables : {AllTables, AllTables \ {"cache_metadata"}},
             added_columns : {{}, {"scan_complete"}, AddedColumns},
             schema_version : {None, Some(1)}] :
        "cache_metadata" \in db.tables \/ db.schema_version = None}

NoDatabase == [tables |-> {}, added_columns |-> {}, schema_version |-> None]

OldItemRow == Some([calculated_size |-> Some(2048), file_count |-> 1, folder_count |-> 0,
                    last_scanned |-> Some(0), expires_at |-> ttl_hours])

OldStructureRow == Some([scan_complete |-> TRUE, total_files |-> Cardinality(Files),
                         total_folders |-> Cardinality(Folders),
                         total_size |-> SumOfSizes(Files), all_items |-> Items,
                         calculated_size |-> [f \in Folders |-> None],
                         expires_at |-> ttl_hours])

CacheInit ==
    /\ children \in {[f \in Folders |-> IF f = "A" THEN <<"x">> ELSE << >>],
                     [f \in Folders |-> IF f = "A" THEN <<"B", "x">>
                                        ELSE IF f = "B" THEN <<"A">> ELSE << >>]}
    /\ modified_time = [i \in Items |-> Some(0)]
    /\ calculated_size = [f \in Folders |-> None]
    /\ last_scanned = [f \in Folders |-> None]
    /\ now = 0
    /\ file_count = [f \in Folders |-> 0]
    /\ folder_count = [f \in Folders |-> 0]
    /\ scan_complete = [f \in Folders |-> FALSE]
    /\ structure = [total_files |-> Cardinality(Files), total_folders |-> Cardinality(Folders),
                    total_size |-> SumOfSizes(Files), scan_timestamp |-> None,
                    scan_complete |-> FALSE]
    /\ cache_enabled \in BOOLEAN
    /\ database \in OlderDatabases \cup {NoDatabase}
    /\ cache_items \in [Folders -> {None, OldItemRow}]
    /\ cache_structures \in {None, OldStructureRow}
    /\ database = NoDatabase => /\ cache_items = [f \in Folders |-> None]
                                /\ cache_structures = None
    /\ \A f \in Folders \ CacheKeys : cache_items[f] = None
    /\ call = NoCall
    /\ stored = NothingStored
    /\ all_items = Items
    /\ drive = NoDrive
    /\ scan = NoScan
    /\ conns = NoConns
    /\ stats = ZeroStats
    /\ calculated_folders = [f \in Folders |-> None]
    /\ processing_folders = {}
    /\ pc = "closed"
    /\ candidates = {}
    /\ cur = "none"
    /\ retrying = FALSE
    /\ processed = 0
    /\ arg = "none"
    /\ stack = << >>
    /\ ret = 0
    /\ exc = NoExc
    /\ fault = [f \in Folders |-> "none"]
    /\ spent = {}
    /\ runs = 0
    /\ result = "none"
    /\ attempts = [f \in Folders |-> 0]
    /\ failed = {}
    /\ history = << >>
    /\ consecutive = FALSE

CacheSpec == CacheInit /\ [][CacheNext]_vars

(***************************************************************************)
(* DriveStructure on its own: a structure just constructed, add_item       *)
(* called with any item in any order (an id may come twice, as a listing   *)
(* may repeat an entry), and the statistics pass that ends an aggregation. *)
(***************************************************************************)
MaxAdds == 7

cacheVars == <<cache_enabled, cache_items, cache_structures, database, call, stored>>

runVars == <<stats, calculated_folders, processing_folders, pc, candidates, cur, retrying,
             processed, arg, stack, ret, exc, fault, spent, runs, result, ghostVars>>

(* DriveStructure(): the field defaults *)
EmptyStructure == [total_files |-> 0, total_folders |-> 0, total_size |-> 0,
                   scan_timestamp |-> None, scan_complete |-> FALSE]

(* DriveStructure.add_item: the counters afterwards *)
add_item(st, i) ==
    IF is_folder(i) THEN [st EXCEPT !.total_folders = @ + 1]
    ELSE [st EXCEPT !.total_files = @ + 1, !.total_size = @ + size(i)]

NewItems ==
    /\ children = [f \in Folders |-> << >>]
    /\ modified_time = [i \in Items |-> Some(0)]
    /\ calculated_size = [f \in Folders |-> None]
    /\ file_count = [f \in Folders |-> 0]
    /\ folder_count = [f \in Folders |-> 0]
    /\ last_scanned = [f \in Folders |-> None]
    /\ scan_complete = [f \in Folders |-> FALSE]

StructureInit ==
    /\ NewItems
    /\ all_items = {}
    /\ structure = EmptyStructure
    /\ cache_enabled = FALSE
    /\ cache_items = [f \in Folders |-> None]
    /\ cache_structures = None
    /\ database = CurrentDatabase
    /\ call = NoCall
    /\ stored = NothingStored
    /\ drive = NoDrive
    /\ scan = NoScan
    /\ conns = NoConns
    /\ now = 0
    /\ CalculatorIdle

AddItem ==
    /\ structure.total_files + structure.total_folders < MaxAdds
    /\ \E i \in Items :
          /\ all_items' = all_items \cup {i}
          /\ structure' = add_item(structure, i)
    /\ UNCHANGED <<itemVars, children, modified_time, cacheVars, runVars, drive, scan,
                   conns, now>>

UpdateStructureStats ==
    /\ structure' = _update_structure_stats
    /\ UNCHANGED <<itemVars, children, modified_time, cacheVars, runVars, drive, scan,
                   conns, now, all_items>>

StructureNext ==
    \/ AddItem
    \/ UpdateStructureStats

StructureSpec == StructureInit /\ [][StructureNext]_vars

(***************************************************************************)
(* Several threads calling cache_item on one DriveCache. Every call opens  *)
(* its own connection (_get_connection), runs INSERT OR REPLACE, commits   *)
(* and closes. SQLite lets one connection at a time hold the write lock of *)
(* the file: the INSERT of another connection finds the file busy, and the *)
(* busy handler (timeout=30.0) sleeps and tries again. The holder keeps    *)
(* the lock for one statement and its commit. A connection changes its own *)
(* copy of the pages it read under the lock, and the commit writes them.   *)
(***************************************************************************)
ThreadKeys == {<<"A">>, <<"A", "B">>, <<"B", "C">>, <<"C", "A">>}

(* the aggregation result thread t stores *)
ThreadSize(t) == Some(1024 * t)

(* a connection that never finds the file locked *)
WriteLockFreeAlways(t) == TRUE

(* no other connection holds the write lock *)
WriteLockFree(t) == \A u \in Threads \ {t} : conns[u].pc # "reserved"

ConcurrentInit ==
    /\ NewItems
    /\ all_items = Items
    /\ structure = EmptyStructure
    /\ cache_enabled = TRUE
    /\ cache_items \in {[f \in Folders |-> None],
                        [f \in Folders |-> IF f = "C" THEN OldItemRow ELSE None]}
    /\ cache_structures = None
    /\ database = CurrentDatabase
    /\ call = NoCall
    /\ stored = NothingStored
    /\ drive = NoDrive
    /\ scan = NoScan
    /\ conns \in {[t \in Threads |-> [NoConns[t] EXCEPT !.todo = q[t]]] :
                     q \in [Threads -> ThreadKeys]}
    /\ now = 0
    /\ CalculatorIdle

(* cache_item, lines 230-237: serialize, compute the expiry, connect *)
ThreadConnect(t) ==
    /\ conns[t].pc = "idle"
    /\ conns[t].todo # << >>
    /\ conns' = [conns EXCEPT ![t].pc = "connected", ![t].key = Head(conns[t].todo),
                              ![t].todo = Tail(conns[t].todo)]
    /\ UNCHANGED <<itemVars, children, modified_time, cacheVars, runVars, drive, scan,
                   now, all_items, structure>>

(* conn.execute finds the file locked: the busy handler waits and retries *)
ThreadBusy(t) ==
    /\ conns[t].pc = "connected"
    /\ ~WriteLockFree(t)
    /\ ~conns[t].busy
    /\ conns' = [conns EXCEPT ![t].busy = TRUE]
    /\ UNCHANGED <<itemVars, children, modified_time, cacheVars, runVars, drive, scan,
                   now, all_items, structure>>

(* conn.execute('INSERT OR REPLACE ...'), lines 238-242: takes the write   *)
(* lock, reads the table and replaces the row in the connection's pages    *)
ThreadExecute(t) ==
    /\ conns[t].pc = "connected"
    /\ WriteLockFree(t)
    /\ conns' = [conns EXCEPT ![t].pc = "reserved",
                              ![t].pages = Some(cache_item(cache_items, conns[t].key,
                                                           ThreadSize(t), 1, 0, Some(now)))]
    /\ UNCHANGED <<itemVars, children, modified_time, cacheVars, runVars, drive, scan,
                   now, all_items, structure>>

(* conn.commit(), the connection is closed, return True (lines 244-247) *)
ThreadCommit(t) ==
    /\ conns[t].pc = "reserved"
    /\ cache_items' = Val(conns[t].pages)
    /\ stored' = [stored EXCEPT ![conns[t].key] =
                     Some([value |-> [ItemValue(ThreadSize(t)) EXCEPT !.last_scanned = Some(now)],
                           at |-> now])]
    /\ conns' = [conns EXCEPT ![t].pc = "idle", ![t].pages = None,
                              ![t].results = Append(@, [key |-> conns[t].key, ret |-> TRUE])]
    /\ UNCHANGED <<itemVars, children, modified_time, cache_enabled, cache_structures,
                   database, call, runVars, drive, scan, now, all_items, structure>>

ConcurrentNext ==
    \E t \in Threads :
        \/ ThreadConnect(t)
        \/ ThreadBusy(t)
        \/ ThreadExecute(t)
        \/ ThreadCommit(t)

ConcurrentSpec == ConcurrentInit /\ [][ConcurrentNext]_vars

(***************************************************************************)
(* The aggregation and the cache operations when the storage fails: the    *)
(* database file is lost while a DriveCache object is in use. The next     *)
(* connection opens an empty file, every statement raises sqlite3's        *)
(* OperationalError (no such table), and the operation's except clause     *)
(* turns it into the return value. Structures with a folder that reaches   *)
(* itself make the serialization fail.                                     *)
(***************************************************************************)
FaultInit ==
    /\ Init
    /\ cache_enabled
    /\ fault = [f \in Folders |-> "none"]
    /\ Kids("C") = {}
    /\ \A f \in Folders : "C" \notin Kids(f) /\ "d" \notin Kids(f)

LoseDatabase ==
    /\ database # NoDatabase
    /\ database' = NoDatabase
    /\ cache_items' = [f \in Folders |-> None]
    /\ cache_structures' = None
    /\ stored' = NothingStored
    /\ UNCHANGED <<itemVars, children, modified_time, cache_enabled, call, runVars, drive,
                   scan, conns, now, all_items, structure>>

(* the caller's own cache calls are followed once the storage is gone; on  *)
(* a working database CacheSpec follows them                               *)
StorageLost == database = NoDatabase

FaultNext ==
    \/ \E force \in BOOLEAN : StartRun(force)
    \/ NextCandidate
    \/ CircularReference
    \/ RunMemoHit
    \/ PersistentCacheHit
    \/ InMemoryHit
    \/ BeginCompute
    \/ VisitFile
    \/ VisitFolder
    \/ Commit
    \/ FinishRun
    \/ LoseDatabase
    \/ StorageLost /\ CallCacheItem
    \/ StorageLost /\ CallGetItem
    \/ StorageLost /\ CallCacheStructure
    \/ StorageLost /\ CallGetStructure

FaultSpec == FaultInit /\ [][FaultNext]_vars

(***************************************************************************)
(* DriveExplorer.scan_drive_complete against a remote Drive. The listing   *)
(* comes in two pages; a list_files call may fail. A listing entry becomes *)
(* a DriveItem whose type follows from its MIME type. An item whose parent *)
(* is not in the listing (a folder shared from somebody else's Drive) has  *)
(* a parent id but is attached nowhere.                                    *)
(***************************************************************************)
MaxScans == 2

Gone == "gone"

(* x is in A, y in B or in C, d at the root; C's parent may be outside the *)
(* listing                                                                 *)
DriveChoices ==
    {dr \in [Items -> Folders \cup {NoParent, Gone}] :
        /\ dr["x"] = "A" /\ dr["y"] \in {"B", "C"} /\ dr["d"] = NoParent
        /\ dr["A"] = NoParent /\ dr["B"] \in {"A", "C", NoParent}
        /\ dr["C"] \in {NoParent, Gone}}

(* the pages list_files returns, in the order of the listing *)
Page(k) == IF k = 1 THEN {"A", "B", "C", "x"} ELSE {"y", "d"}

(* build_hierarchy, first pass: the children of every folder of S *)
BuiltChildren(S) ==
    [f \in Folders |->
        IF f \in S THEN SelectSeq(ItemOrder, LAMBDA i : i \in S /\ drive[i] = f)
        ELSE << >>]

RECURSIVE ReachVia(_, _, _)
ReachVia(ch, S, k) ==
    IF k = 0 THEN S
    ELSE ReachVia(ch, S \cup UNION {SeqToSet(ch[g]) : g \in S \cap Folders}, k - 1)

BelowIn(ch, f) == ReachVia(ch, SeqToSet(ch[f]), Cardinality(Items))

(* root_folders, and the folders that calculate_folder_size reaches from them *)
RootFolders(S) == {f \in S \cap Folders : drive[f] = NoParent}

SizedFolders(S) ==
    RootFolders(S) \cup
        UNION {BelowIn(BuiltChildren(S), r) \cap Folders : r \in RootFolders(S)}

(* what the scan hands to its caller: the structure's flag, its mapping    *)
(* and the folders' calculated sizes                                       *)
Returned(sc, ids, cs) == Some([scan_complete |-> sc, all_items |-> ids, calculated_size |-> cs])

scanVars == <<itemVars, children, modified_time, structure, all_items>>

ExplorerInit ==
    /\ NewItems
    /\ all_items = {}
    /\ structure = EmptyStructure
    /\ cache_enabled \in BOOLEAN
    /\ cache_items = [f \in Folders |-> None]
    /\ cache_structures = None
    /\ database = CurrentDatabase
    /\ call = NoCall
    /\ stored = NothingStored
    /\ drive \in DriveChoices
    /\ scan = NoScan
    /\ conns = NoConns
    /\ now = 0
    /\ CalculatorIdle

(* lines 96-104: the cached structure is used *)
CachedStructureUsableAlways(use_cache) ==
    use_cache /\ cache_enabled /\ cache_structures # None

CachedStructureUsable(use_cache) ==
    /\ use_cache
    /\ cache_enabled
    /\ get_structure # None
    /\ Val(get_structure).scan_complete

(* scan_drive_complete is called; lines 96-107 *)
ScanStart ==
    /\ scan.phase \in {"idle", "done"}
    /\ pc = "idle"
    /\ scan.n < MaxScans
    /\ \E use_cache \in BOOLEAN, calculate_sizes \in BOOLEAN, callback \in BOOLEAN :
          LET call_made == [NoScan EXCEPT !.n = scan.n + 1, !.use_cache = use_cache,
                                          !.calculate_sizes = calculate_sizes,
                                          !.callback = callback]
          IN IF CachedStructureUsable(use_cache)
             THEN /\ scan' = [call_made EXCEPT
                                 !.phase = "done", !.outcome = "cached",
                                 !.steps = <<"return">>,
                                 !.returned = Returned(Val(cache_structures).scan_complete,
                                                       Val(cache_structures).all_items,
                                                       Val(cache_structures).calculated_size)]
                  /\ UNCHANGED cache_structures
             ELSE /\ scan' = [call_made EXCEPT !.phase = "first_page"]
                  /\ cache_structures' = IF use_cache THEN get_structure_table
                                         ELSE cache_structures
    /\ UNCHANGED <<scanVars, cache_enabled, cache_items, database, call, stored, runVars,
                   drive, conns, now>>

(* _fetch_all_files_complete, lines 186-211: the first page, whose failure *)
(* is raised again                                                         *)
FetchFirstPage ==
    /\ scan.phase = "first_page"
    /\ \E ok \in BOOLEAN :
          scan' = IF ok
                  THEN [scan EXCEPT !.phase = "more_pages", !.fetched = Page(1),
                                    !.remote_calls = @ + 1, !.steps = <<"fetch">>]
                  ELSE [scan EXCEPT !.phase = "done", !.outcome = "raised",
                                    !.page_failed = 1, !.remote_calls = @ + 1]
    /\ UNCHANGED <<scanVars, cacheVars, runVars, drive, conns, now>>

(* lines 214-258: a later page; every except branch leaves the loop *)
FetchNextPage ==
    /\ scan.phase = "more_pages"
    /\ \E ok \in BOOLEAN :
          scan' = IF ok
                  THEN [scan EXCEPT !.phase = "fetched", !.fetched = @ \cup Page(2),
                                    !.remote_calls = @ + 1]
                  ELSE [scan EXCEPT !.phase = "fetched", !.page_failed = 2,
                                    !.remote_calls = @ + 1]
    /\ UNCHANGED <<scanVars, cacheVars, runVars, drive, conns, now>>

(* lines 117-124: a new DriveStructure, add_item for every entry, and      *)
(* build_hierarchy, whose second pass sizes what hangs below a root folder *)
BuildStructure ==
    /\ scan.phase = "fetched"
    /\ LET S == scan.fetched
           ch == BuiltChildren(S)
       IN /\ all_items' = S
          /\ children' = ch
          /\ structure' = [EmptyStructure EXCEPT
                              !.total_files = Cardinality(S \cap Files),
                              !.total_folders = Cardinality(S \cap Folders),
                              !.total_size = SumOfSizes(S \cap Files)]
          /\ calculated_size' = [f \in Folders |->
                                    IF f \in SizedFolders(S)
                                    THEN Some(SumOfSizes(BelowIn(ch, f) \cap Files))
                                    ELSE None]
          /\ file_count' = [f \in Folders |->
                               IF f \in SizedFolders(S)
                               THEN Cardinality(BelowIn(ch, f) \cap Files) ELSE 0]
          /\ folder_count' = [f \in Folders |->
                                 IF f \in SizedFolders(S)
                                 THEN Cardinality(BelowIn(ch, f) \cap Folders) ELSE 0]
          /\ last_scanned' = [f \in Folders |-> Some(now)]
          /\ scan_complete' = [f \in Folders |-> FALSE]
    /\ scan' = [scan EXCEPT !.phase = "built", !.steps = Append(@, "build")]
    /\ UNCHANGED <<modified_time, cacheVars, runVars, drive, conns, now>>

(* lines 141-144: no size calculation *)
ScanSkipSizes ==
    /\ scan.phase = "built"
    /\ ~scan.calculate_sizes
    /\ structure' = [structure EXCEPT !.scan_complete = TRUE, !.scan_timestamp = Some(now)]
    /\ scan' = [scan EXCEPT !.phase = "caching"]
    /\ UNCHANGED <<itemVars, children, modified_time, all_items, cacheVars, runVars, drive,
                   conns, now>>

(* lines 126-140 with calculator.py 78-92: the run starts. The calculator  *)
(* is handed size_progress, which calls the scan's progress_callback       *)
(* whenever total > 0                                                      *)
CallbackRaises == ~scan.callback /\ folders_to_calculate(FALSE) \cap all_items # {}

ScanCalculate ==
    /\ scan.phase = "built"
    /\ scan.calculate_sizes
    /\ ~CallbackRaises
    /\ stats' = ZeroStats
    /\ calculated_folders' = [f \in Folders |-> None]
    /\ processing_folders' = {}
    /\ candidates' = folders_to_calculate(FALSE) \cap all_items
    /\ processed' = 0
    /\ pc' = "loop"
    /\ runs' = runs + 1
    /\ result' = "none"
    /\ attempts' = [f \in Folders |-> 0]
    /\ failed' = {}
    /\ history' = Append(history, [candidates |-> folders_to_calculate(FALSE) \cap all_items,
                                   uncalculated |-> folders_to_calculate(FALSE) \cap all_items,
                                   consecutive |-> consecutive,
                                   done |-> FALSE, fields |-> Fields,
                                   processed_items |-> 0])
    /\ scan' = [scan EXCEPT !.phase = "aggregating", !.steps = Append(@, "aggregate")]
    /\ UNCHANGED <<scanVars, cacheVars, cur, retrying, arg, stack, ret, exc, fault, spent,
                   consecutive, drive, conns, now>>

(* calculator.py 91-92 and 154-156, explorer.py 163-165: the call of a     *)
(* missing callback raises TypeError, which leaves the scan as a           *)
(* SizeCalculationError                                                    *)
ScanCalculateRaises ==
    /\ scan.phase = "built"
    /\ scan.calculate_sizes
    /\ CallbackRaises
    /\ stats' = ZeroStats
    /\ calculated_folders' = [f \in Folders |-> None]
    /\ processing_folders' = {}
    /\ scan' = [scan EXCEPT !.phase = "done", !.outcome = "raised",
                            !.steps = Append(@, "aggregate")]
    /\ UNCHANGED <<scanVars, cacheVars, pc, candidates, cur, retrying, processed, arg,
                   stack, ret, exc, fault, spent, runs, result, ghostVars, drive, conns, now>>

(* lines 146-161: the structure is cached and returned *)
ScanFinish ==
    /\ \/ scan.phase = "caching"
       \/ scan.phase = "aggregating" /\ pc = "idle"
    /\ cache_structures' = cache_structure(cache_structures, structure)
    /\ scan' = [scan EXCEPT !.phase = "done", !.outcome = "built",
                            !.steps = @ \o (IF cache_enabled THEN <<"cache">> ELSE << >>)
                                        \o <<"return">>,
                            !.returned = Returned(structure.scan_complete, all_items,
                                                  calculated_size)]
    /\ UNCHANGED <<scanVars, cache_enabled, cache_items, database, call, stored, runVars,
                   drive, conns, now>>

(* between two scans somebody moves file y from folder B to folder C *)
DriveChanges ==
    /\ scan.phase = "done"
    /\ drive["y"] = "B"
    /\ drive' = [drive EXCEPT !["y"] = "C"]
    /\ UNCHANGED <<scanVars, cacheVars, runVars, scan, conns, now>>

(* between two scans the cached rows expire *)
ExplorerTick ==
    /\ scan.phase = "done"
    /\ now < MaxTicks * (ttl_hours + 1)
    /\ now' = now + ttl_hours + 1
    /\ UNCHANGED <<scanVars, cacheVars, runVars, drive, scan, conns>>

ExplorerNext ==
    \/ ScanStart
    \/ FetchFirstPage
    \/ FetchNextPage
    \/ BuildStructure
    \/ ScanSkipSizes
    \/ ScanCalculate
    \/ ScanCalculateRaises
    \/ NextCandidate
    \/ RunMemoHit
    \/ PersistentCacheHit
    \/ BeginCompute
    \/ VisitFile
    \/ VisitFolder
    \/ Commit
    \/ FinishRun
    \/ ScanFinish
    \/ DriveChanges
    \/ ExplorerTick

ExplorerSpec == ExplorerInit /\ [][ExplorerNext]_vars

(***************************************************************************)
(* One thread calling get_item while another calls cache_item on the same  *)
(* DriveCache. get_item's SELECT is finished when fetchone has returned    *)
(* the only row, so its connection holds no lock while _is_expired is      *)
(* evaluated; the DELETE of an expired row takes the write lock like any   *)
(* other write and names the row by its id alone.                          *)
(***************************************************************************)
Reader == 1

Writer == 2

RaceInit ==
    /\ NewItems
    /\ all_items = Items
    /\ structure = EmptyStructure
    /\ cache_enabled = TRUE
    /\ cache_items \in [Folders -> {None, OldItemRow}]
    /\ cache_structures = None
    /\ database = CurrentDatabase
    /\ call = NoCall
    /\ stored = NothingStored
    /\ drive = NoDrive
    /\ scan = NoScan
    /\ conns \in {[t \in Threads |-> [NoConns[t] EXCEPT !.todo = q[t]]] :
                     q \in [Threads -> ThreadKeys]}
    /\ now = ttl_hours + 1
    /\ CalculatorIdle

(* get_item, lines 262-266: connect *)
GetConnect ==
    /\ conns[Reader].pc = "idle"
    /\ conns[Reader].todo # << >>
    /\ conns' = [conns EXCEPT ![Reader].pc = "get_connected",
                              ![Reader].key = Head(conns[Reader].todo),
                              ![Reader].todo = Tail(conns[Reader].todo)]
    /\ UNCHANGED <<itemVars, children, modified_time, cacheVars, runVars, drive, scan,
                   now, all_items, structure>>

(* lines 267-282: the SELECT and fetchone; no row, a live row, or an       *)
(* expired one that is to be deleted                                       *)
GetSelect ==
    /\ conns[Reader].pc = "get_connected"
    /\ LET k == conns[Reader].key
           row == cache_items[k]
       IN IF row # None /\ _is_expired(Val(row).expires_at)
          THEN conns' = [conns EXCEPT ![Reader].pc = "expired_read"]
          ELSE conns' = [conns EXCEPT ![Reader].pc = "idle",
                                      ![Reader].results = Append(@, [key |-> k, ret |-> row])]
    /\ UNCHANGED <<itemVars, children, modified_time, cacheVars, runVars, drive, scan,
                   now, all_items, structure>>

(* line 278 finds the file locked: the busy handler waits and retries *)
GetDeleteBusy ==
    /\ conns[Reader].pc = "expired_read"
    /\ ~WriteLockFree(Reader)
    /\ ~conns[Reader].busy
    /\ conns' = [conns EXCEPT ![Reader].busy = TRUE]
    /\ UNCHANGED <<itemVars, children, modified_time, cacheVars, runVars, drive, scan,
                   now, all_items, structure>>

(* line 278: DELETE FROM drive_items WHERE id = ? *)
GetDelete ==
    /\ conns[Reader].pc = "expired_read"
    /\ WriteLockFree(Reader)
    /\ conns' = [conns EXCEPT ![Reader].pc = "reserved",
                              ![Reader].pages = Some([cache_items EXCEPT
                                                         ![conns[Reader].key] = None])]
    /\ UNCHANGED <<itemVars, children, modified_time, cacheVars, runVars, drive, scan,
                   now, all_items, structure>>

(* lines 279-280: commit, return None *)
GetCommit ==
    /\ conns[Reader].pc = "reserved"
    /\ cache_items' = Val(conns[Reader].pages)
    /\ conns' = [conns EXCEPT ![Reader].pc = "idle", ![Reader].pages = None,
                              ![Reader].results = Append(@, [key |-> conns[Reader].key,
                                                             ret |-> None])]
    /\ UNCHANGED <<itemVars, children, modified_time, cache_enabled, cache_structures,
                   database, call, stored, runVars, drive, scan, now, all_items, structure>>

RaceNext ==
    \/ GetConnect
    \/ GetSelect
    \/ GetDeleteBusy
    \/ GetDelete
    \/ GetCommit
    \/ ThreadConnect(Writer)
    \/ ThreadBusy(Writer)
    \/ ThreadExecute(Writer)
    \/ ThreadCommit(Writer)

RaceSpec == RaceInit /\ [][RaceNext]_vars

(***************************************************************************)
(* DriveStructure.build_hierarchy on items with several parent ids. Here   *)
(* drive[i] is the item's parent_ids as the listing gave them: ids of      *)
(* folders, of files, or of items that are not in the listing. The caller  *)
(* adds the listed items in the listing's order and builds the hierarchy   *)
(* once.                                                                   *)
(***************************************************************************)
ParentIdChoices ==
    {pi \in [Items -> {<< >>, <<"A">>, <<"B">>, <<Gone>>, <<"A", "B">>, <<Gone, "B">>,
                       <<"d", "A">>, <<"C", "A">>, <<Gone, "A">>}] :
        /\ pi["x"] \in {<<"A">>, <<"A", "B">>, <<Gone, "B">>, <<"d", "A">>}
        /\ pi["y"] \in {<<"B">>, <<Gone>>, << >>}
        /\ pi["d"] = << >>
        /\ pi["A"] \in {<< >>, <<"B">>}
        /\ pi["B"] \in {<<"A">>, <<"C", "A">>, << >>}
        /\ pi["C"] \in {<< >>, <<Gone>>, <<Gone, "A">>}}

(* the listings: everything, or everything but folder C *)
Listings == {Items, Items \ {"C"}}

EmptyHierarchy ==
    [root_folders |-> << >>, root_files |-> << >>, total_files |-> 0, total_folders |-> 0,
     total_size |-> 0, scan_timestamp |-> None, scan_complete |-> FALSE]

(* lines 262-266 without the break: every parent that is a known folder *)
RECURSIVE EveryKnownFolder(_, _)
EveryKnownFolder(S, ps) ==
    IF ps = << >> THEN << >>
    ELSE (IF Head(ps) \in S \cap Folders THEN <<Head(ps)>> ELSE << >>)
            \o EveryKnownFolder(S, Tail(ps))

(* lines 262-266: the parents the item is attached to, which is the first  *)
(* parent id that names a folder of the mapping, if there is one           *)
RECURSIVE AttachTo(_, _)
AttachTo(S, ps) ==
    IF ps = << >> THEN << >>
    ELSE IF Head(ps) \in S \cap Folders THEN <<Head(ps)>>
    ELSE AttachTo(S, Tail(ps))

(* DriveItem.add_child: the child list afterwards *)
add_child(list, i) == IF i \in SeqToSet(list) THEN list ELSE Append(list, i)

RECURSIVE AddToParents(_, _, _)
AddToParents(ch, ps, i) ==
    IF ps = << >> THEN ch
    ELSE AddToParents([ch EXCEPT ![Head(ps)] = add_child(@, i)], Tail(ps), i)

(* build_hierarchy, first pass (lines 252-266) over the items in order *)
RECURSIVE FirstPass(_, _, _)
FirstPass(order, S, h) ==
    IF order = << >> THEN h
    ELSE LET i == Head(order)
             h2 == IF i \notin S THEN h
                   ELSE IF drive[i] = << >>
                        THEN IF is_folder(i)
                             THEN [h EXCEPT !.root_folders = Append(@, i)]
                             ELSE [h EXCEPT !.root_files = Append(@, i)]
                        ELSE [h EXCEPT !.children = AddToParents(@, AttachTo(S, drive[i]), i)]
         IN FirstPass(Tail(order), S, h2)

(* DriveItem.calculate_folder_size: size, files and folders of one walk of *)
(* the child lists, as deep as the interpreter lets the recursion go       *)
RECURSIVE WalkIn(_, _, _)
WalkIn(ch, i, depth) ==
    IF ~is_folder(i) THEN [size |-> size(i), files |-> 1, folders |-> 0]
    ELSE IF depth = 0 THEN [size |-> 0, files |-> 0, folders |-> 0]
    ELSE LET w == [k \in Items |-> WalkIn(ch, k, depth - 1)] IN
         [size |-> SumOver([k \in Items |-> w[k].size], SeqToSet(ch[i])),
          files |-> SumOver([k \in Items |-> w[k].files], SeqToSet(ch[i])),
          folders |-> SumOver([k \in Items |-> IF is_folder(k) THEN 1 + w[k].folders ELSE 0],
                              SeqToSet(ch[i]))]

HierarchyInit ==
    /\ NewItems
    /\ all_items = {}
    /\ structure = EmptyHierarchy
    /\ cache_enabled = FALSE
    /\ cache_items = [f \in Folders |-> None]
    /\ cache_structures = None
    /\ database = CurrentDatabase
    /\ call = NoCall
    /\ stored = NothingStored
    /\ drive \in ParentIdChoices
    /\ \E S \in Listings : scan = [NoScan EXCEPT !.phase = "fetched", !.fetched = S]
    /\ conns = NoConns
    /\ now = 0
    /\ CalculatorIdle

(* explorer.py 293-294: the next entry of the listing becomes an item of   *)
(* the mapping                                                             *)
HierarchyAddItem ==
    /\ scan.phase = "fetched"
    /\ scan.fetched \ all_items # {}
    /\ LET rest == SelectSeq(ItemOrder, LAMBDA i : i \in scan.fetched \ all_items)
       IN /\ all_items' = all_items \cup {Head(rest)}
          /\ structure' = add_item(structure, Head(rest))
    /\ UNCHANGED <<itemVars, children, modified_time, cacheVars, runVars, drive, scan,
                   conns, now>>

(* structure.build_hierarchy(): both passes *)
BuildHierarchy ==
    /\ scan.phase = "fetched"
    /\ scan.fetched \ all_items = {}
    /\ LET h == FirstPass(ItemOrder, all_items,
                          [root_folders |-> << >>, root_files |-> << >>,
                           children |-> [f \in Folders |-> << >>]])
           sized == SeqToSet(h.root_folders)
                       \cup UNION {BelowIn(h.children, r) \cap Folders :
                                      r \in SeqToSet(h.root_folders)}
           w == [f \in Folders |-> WalkIn(h.children, f, Cardinality(Items))]
       IN /\ children' = h.children
          /\ structure' = [structure EXCEPT !.root_folders = h.root_folders,
                                            !.root_files = h.root_files]
          /\ calculated_size' = [f \in Folders |->
                                    IF f \in sized THEN Some(w[f].size) ELSE None]
          /\ file_count' = [f \in Folders |-> IF f \in sized THEN w[f].files ELSE 0]
          /\ folder_count' = [f \in Folders |-> IF f \in sized THEN w[f].folders ELSE 0]
    /\ scan' = [scan EXCEPT !.phase = "built"]
    /\ UNCHANGED <<last_scanned, scan_complete, modified_time, all_items, cacheVars,
                   runVars, drive, conns, now>>

HierarchyNext ==
    \/ HierarchyAddItem
    \/ BuildHierarchy

HierarchySpec == HierarchyInit /\ [][HierarchyNext]_vars

(***************************************************************************)
(* What the claims speak about                                             *)
(***************************************************************************)
RunEnded == pc = "idle" /\ runs >= 1

FirstRunEnded == pc = "idle" /\ runs = 1

NoFailures == \A f \in Folders : fault[f] = "none"

Descendants(f) == Below(f)

DescendantBytes(f) == SumOfSizes(Descendants(f) \cap Files)

DescendantFiles(f) == Cardinality(Descendants(f) \cap Files)

DescendantFolders(f) == Cardinality(Descendants(f) \cap Folders)

StackFolders == {stack[k].folder : k \in 1..Len(stack)}

(* C1: in a forest with an empty cache, nothing calculated and no failure, *)
(* after aggregate_all every folder's calculated_size is the sum of the    *)
(* raw sizes of all the non-folder items below it.                         *)
C1_SizeIsSumOfDescendants ==
    (FirstRunEnded /\ IsForest /\ NoFailures)
        => \A f \in Folders : calculated_size[f] = Some(DescendantBytes(f))

C1_Witness ==
    /\ FirstRunEnded /\ IsForest /\ NoFailures
    /\ Kids("A") = {"B", "x"}
    /\ Kids("B") = {"C", "y"}
    /\ calculated_size["A"] = Some(3072)
    /\ calculated_size["B"] = Some(2048)

(* C2: after the aggregation of a forest file_count is the number of       *)
(* non-folder items below the folder (workspace documents included) and    *)
(* folder_count the number of folders below it, each counted once.         *)
C2_CountsAreTransitive ==
    (FirstRunEnded /\ IsForest /\ NoFailures)
        => \A f \in Folders : /\ file_count[f] = DescendantFiles(f)
                              /\ folder_count[f] = DescendantFolders(f)

C2_Witness ==
    /\ FirstRunEnded /\ IsForest /\ NoFailures
    /\ Kids("A") = {"B", "x", "d"}
    /\ Kids("B") = {"C", "y"}
    /\ file_count["A"] = 3
    /\ folder_count["A"] = 2
    /\ folder_count["B"] = 1

(* C3: a call of aggregate on a folder already in progress returns 0,      *)
(* visits no child, raises nothing and leaves the folder's fields, the run *)
(* memo and the in-progress set as they are.                               *)
C3_InProgressReturnsZero ==
    [][(pc = "enter" /\ arg \in processing_folders)
          => /\ ret' = 0
             /\ pc' = "children"
             /\ Len(stack') = Len(stack)
             /\ stack'[Len(stack)].total_size = stack[Len(stack)].total_size
             /\ exc' = exc
             /\ itemVars' = itemVars
             /\ calculated_folders' = calculated_folders
             /\ processing_folders' = processing_folders
             /\ stats' = stats]_vars

C3_Witness ==
    /\ pc = "children"
    /\ arg \in processing_folders
    /\ Top.idx > 1
    /\ children[Top.folder][Top.idx - 1] = arg
    /\ ret = 0
    /\ calculated_folders[arg] = None

(* C4: aggregate_all terminates on every structure, also when the child    *)
(* links contain cycles: no folder is on the call stack twice, and a run   *)
(* that has started ends.                                                  *)
C4_Terminates ==
    /\ [](Cardinality(StackFolders) = Len(stack) /\ StackFolders = processing_folders)
    /\ (pc # "idle") ~> (pc = "idle" /\ result = "returned")

C4_Witness ==
    /\ RunEnded
    /\ result = "returned"
    /\ "B" \in Descendants("A") /\ "A" \in Descendants("B")
    /\ calculated_size["A"] # None
    /\ calculated_size["B"] # None

(* C5: a second run made right after a run, selecting the folders without  *)
(* a calculated size (force = false), leaves calculated_size, file_count   *)
(* and folder_count of every folder as the first run left them and         *)
(* processes no folder.                                                    *)
SelectsUncalculated(n) == history[n].candidates = history[n].uncalculated

C5_SecondRunIdempotent ==
    \A n \in 2..Len(history) :
        (history[n].done /\ history[n].consecutive /\ SelectsUncalculated(n))
            => /\ history[n].fields = history[n - 1].fields
               /\ history[n].processed_items = 0

C5_Witness ==
    /\ Len(history) = 2
    /\ history[2].done /\ history[2].consecutive /\ SelectsUncalculated(2)
    /\ history[2].candidates # {}
    /\ pc = "idle"
    /\ stats.cache_hits > 0
    /\ stats.processed_items = 0

(* C6: a run in which the aggregation of one folder always raises a        *)
(* permission failure returns without raising, counts a permission error   *)
(* and a general error, and leaves that folder with scan_complete = true   *)
(* and calculated_size = 0.                                                *)
C6_PermissionFailureResilience ==
    RunEnded =>
        /\ result = "returned"
        /\ \A f \in Folders :
              fault[f] = "PermissionError" =>
                 /\ scan_complete[f]
                 /\ calculated_size[f] = Some(0)
                 /\ attempts[f] > 0 => /\ stats.permission_errors >= 1
                                       /\ stats.errors_encountered >= 1

C6_Witness ==
    /\ RunEnded
    /\ fault["B"] = "PermissionError"
    /\ attempts["B"] = 1
    /\ stats.permission_errors >= 1
    /\ calculated_size["B"] = Some(0)
    /\ scan_complete["B"]

(* C7: a rate-limit failure on a candidate is counted and the candidate is *)
(* tried once more: no candidate is attempted more than twice in a run,    *)
(* every second attempt follows a counted rate-limit failure, and a        *)
(* failure of the retry, whatever it is, leads on to the next candidate.   *)
C7_RetryExactlyOnce ==
    /\ [](/\ \A f \in Folders : attempts[f] <= 2
          /\ stats.rate_limit_errors = Cardinality({f \in Folders : attempts[f] = 2})
          /\ result # "raised")
    /\ [][(pc = "unwind" /\ stack = << >> /\ exc.kind = "RateLimitError" /\ ~retrying)
             => /\ stats'.rate_limit_errors = stats.rate_limit_errors + 1
                /\ pc' = "enter" /\ arg' = cur /\ retrying']_vars
    /\ [][(pc = "unwind" /\ stack = << >> /\ retrying)
             => /\ pc' = "loop"
                /\ attempts' = attempts
                /\ stats' = stats]_vars

C7_Witness ==
    /\ RunEnded
    /\ result = "returned"
    /\ \E f \in Folders : /\ attempts[f] = 2
                          /\ f \in failed
                          /\ fault[f] = "RateLimitError"
    /\ stats.rate_limit_errors = 1

(* C8: a failure raised while aggregating folder F changes the aggregation *)
(* result of F only: the except clauses alter the fields of no other       *)
(* folder.                                                                 *)
C8_FailureIsolated ==
    [][(pc = "unwind" /\ stack = << >>)
          => \A g \in Folders \ {exc.origin} :
                /\ calculated_size'[g] = calculated_size[g]
                /\ file_count'[g] = file_count[g]
                /\ folder_count'[g] = folder_count[g]
                /\ scan_complete'[g] = scan_complete[g]]_vars

(* C9: after aggregate_all every folder whose aggregation failed has been  *)
(* counted in the error statistics and is marked scan_complete = true with *)
(* a calculated_size of 0 or null.                                         *)
C9_FailedFoldersMarkedComplete ==
    RunEnded =>
        \A f \in failed :
            /\ stats.errors_encountered >= 1
            /\ scan_complete[f]
            /\ calculated_size[f] \in {None, Some(0)}

(* C10: whatever the failures, aggregate_all returns normally with the     *)
(* structure marked scan_complete, scan_timestamp set and the totals       *)
(* recomputed.                                                             *)
C10_RunAlwaysCompletes ==
    /\ result # "raised"
    /\ RunEnded =>
          /\ result = "returned"
          /\ structure.scan_complete
          /\ structure.scan_timestamp # None
          /\ structure.total_files = Cardinality(Files)
          /\ structure.total_folders = Cardinality(Folders)
          /\ structure.total_size =
                SumOfSizes(Files)
                + SumOver([f \in Folders |-> IF calculated_size[f] = None THEN 0
                                             ELSE Val(calculated_size[f])], Folders)

C10_Witness ==
    /\ RunEnded
    /\ result = "returned"
    /\ structure.scan_complete
    /\ stats.errors_encountered >= 2
    /\ \E f \in Folders : fault[f] = "Exception"
    /\ \E f \in Folders : fault[f] = "PermissionError"

LastRun == history[Len(history)]

(* A run has just ended: the structure is the one it worked on *)
JustEnded == pc = "idle" /\ runs >= 1 /\ consecutive /\ LastRun.done

(* C11: an incremental run treats a failing candidate as aggregate_all     *)
(* does: a permission failure is counted as a permission error and a       *)
(* general error and leaves the folder scan_complete with calculated_size  *)
(* 0; a rate-limit failure is counted and the candidate is tried a second  *)
(* time.                                                                   *)
C11_IncrementalErrorIsolation ==
    JustEnded =>
        \A f \in Folders :
            /\ (fault[f] = "PermissionError" /\ attempts[f] > 0)
                  => /\ stats.permission_errors >= 1
                     /\ stats.errors_encountered >= 1
                     /\ scan_complete[f]
                     /\ calculated_size[f] = Some(0)
            /\ (fault[f] \in {"RateLimitError", "RateLimitOnce"} /\ f \in failed)
                  => /\ stats.rate_limit_errors >= 1
                     /\ attempts[f] = 2

(* C12: in an incremental run every candidate's cache row is deleted       *)
(* before the candidate is recomputed, whatever the order of the           *)
(* candidates: in a forest without failures the fields a finished run      *)
(* leaves on each of its candidates are those of its current children,     *)
(* never those of a cache row that existed when the run started.           *)
C12_CandidatesRecomputed ==
    (JustEnded /\ IsForest /\ NoFailures)
        => \A f \in LastRun.candidates :
              /\ calculated_size[f] = Some(DescendantBytes(f))
              /\ file_count[f] = DescendantFiles(f)
              /\ folder_count[f] = DescendantFolders(f)

(* The call of _should_recalculate has been made *)
Decided == pc = "decided"

WithinTTL(f) == last_scanned[f] # None /\ (now - Val(last_scanned[f])) < ttl_hours

ChildModifiedSince(f) ==
    /\ last_scanned[f] # None
    /\ \E c \in Kids(f) : /\ modified_time[c] # None
                          /\ Val(modified_time[c]) > Val(last_scanned[f])

(* C13: should_recalculate returns true for a folder without a calculated  *)
(* size; otherwise false when last_scanned lies within the TTL; otherwise  *)
(* true exactly when a direct child was modified after last_scanned.       *)
C13_RecalculationPolicy ==
    Decided =>
        result = IF calculated_size[cur] = None THEN "True"
                 ELSE IF WithinTTL(cur) THEN "False"
                 ELSE IF ChildModifiedSince(cur) THEN "True"
                 ELSE "False"

(* C14: a folder with a calculated size whose last scan is older than the  *)
(* TTL is reported as needing recalculation, one scanned within the TTL is *)
(* not.                                                                    *)
C14_OldScanIsRecalculated ==
    (Decided /\ calculated_size[cur] # None /\ last_scanned[cur] # None)
        => result = IF WithinTTL(cur) THEN "False" ELSE "True"

(* The cache holds a row for f that has not expired, with a calculated     *)
(* size, scanned within the TTL                                            *)
FreshEntry(f) ==
    /\ cache_enabled
    /\ cache_items[f] # None
    /\ now <= Val(cache_items[f]).expires_at
    /\ Val(cache_items[f]).calculated_size # None
    /\ Val(cache_items[f]).last_scanned # None
    /\ now - Val(Val(cache_items[f]).last_scanned) < ttl_hours

(* A call that gets as far as the persistent-cache check *)
ReachesCacheCheck ==
    /\ pc = "enter"
    /\ ~Raises(arg)
    /\ arg \notin processing_folders
    /\ calculated_folders[arg] = None

(* C15: a call that finds a fresh cache row with a calculated size copies  *)
(* the row's calculated_size, file_count, folder_count and last_scanned to *)
(* the live folder, marks it scan_complete, memoizes it, counts one cache  *)
(* hit and returns the cached size; it visits no child, does not count the *)
(* folder as processed and touches no other folder.                        *)
C15_CacheHitFrame ==
    [][(ReachesCacheCheck /\ FreshEntry(arg))
          => LET row == Val(cache_items[arg]) IN
             /\ calculated_size' = [calculated_size EXCEPT ![arg] = row.calculated_size]
             /\ file_count' = [file_count EXCEPT ![arg] = row.file_count]
             /\ folder_count' = [folder_count EXCEPT ![arg] = row.folder_count]
             /\ last_scanned' = [last_scanned EXCEPT ![arg] = row.last_scanned]
             /\ scan_complete' = [scan_complete EXCEPT ![arg] = TRUE]
             /\ calculated_folders' = [calculated_folders EXCEPT ![arg] = row.calculated_size]
             /\ stats' = [stats EXCEPT !.cache_hits = @ + 1]
             /\ ret' = Val(row.calculated_size)
             /\ Len(stack') = Len(stack)
             /\ processing_folders' = processing_folders
             /\ pc' \in {"loop", "children"}]_vars

C15_Witness ==
    /\ runs = 2
    /\ pc = "loop"
    /\ FreshEntry(cur)
    /\ stats.cache_hits = 1
    /\ stats.processed_items = 0
    /\ calculated_folders[cur] = Val(cache_items[cur]).calculated_size
    /\ calculated_size[cur] = Val(cache_items[cur]).calculated_size
    /\ ret = Val(calculated_size[cur])
    /\ ret > 0
    /\ scan_complete[cur]

(* The run in progress was started with force_recalculate = true: it       *)
(* selected every folder although some had a calculated size               *)
Forced ==
    /\ Len(history) > 0
    /\ pc # "idle"
    /\ LastRun.candidates = Folders
    /\ LastRun.uncalculated # Folders

(* C16: a run with force_recalculate = true ignores cached calculations:   *)
(* a call that the run memo does not answer is never answered from a       *)
(* persistent-cache row or from the calculated_size on the live folder.    *)
C16_ForceIgnoresCached ==
    [][(Forced /\ ReachesCacheCheck)
          => /\ stats'.cache_hits = stats.cache_hits
             /\ calculated_folders' = calculated_folders]_vars

(* The step is a call of the cache operation op *)
IsCall(op) == call'.op = op /\ now' = now

StoredFresh(k) == stored[k] # None /\ now <= Val(stored[k]).at + ttl_hours

(* C17: a get_item (get_structure) made before the TTL of the last         *)
(* successful put for that key has passed returns the value that put       *)
(* stored, whatever was stored under the key before; the tables hold one   *)
(* row per key, the one of the latest put.                                 *)
C17_RoundTrip ==
    /\ [][(IsCall("get_item") /\ StoredFresh(call'.key))
             => /\ call'.ret # None
                /\ ItemFields(Val(call'.ret)) = Val(stored[call'.key]).value]_vars
    /\ [][(IsCall("get_structure") /\ StoredFresh(StructureKey))
             => /\ call'.ret # None
                /\ StructureFields(Val(call'.ret)) = Val(stored[StructureKey]).value]_vars
    /\ [][(IsCall("cache_item") /\ call'.ret = TRUE)
             => /\ cache_items'[call'.key] # None
                /\ ItemFields(Val(cache_items'[call'.key])) = Val(stored'[call'.key]).value
                /\ Val(cache_items'[call'.key]).expires_at = now + ttl_hours
                /\ \A g \in Folders \ {call'.key} : cache_items'[g] = cache_items[g]]_vars

C17_Witness ==
    /\ call.op = "get_item"
    /\ call.ret # None
    /\ stored[call.key] # None
    /\ now = ttl_hours
    /\ Val(stored[call.key]).at = 0
    /\ Val(call.ret).calculated_size = Some(3072)
    /\ Val(call.ret).last_scanned = Some(0)
    /\ Val(call.ret).expires_at = ttl_hours

RowExpired(row) == row # None /\ now > Val(row).expires_at

(* C18: get_item and get_structure on a row whose expiry has passed return *)
(* absent and delete that row and no other row of either table; a row that *)
(* is returned has not expired, and a read of a live row deletes nothing.  *)
C18_ExpiredRead ==
    /\ [][(IsCall("get_item") /\ cache_enabled)
             => /\ RowExpired(cache_items[call'.key])
                      => /\ call'.ret = None
                         /\ cache_items' = [cache_items EXCEPT ![call'.key] = None]
                /\ ~RowExpired(cache_items[call'.key])
                      => /\ call'.ret = cache_items[call'.key]
                         /\ cache_items' = cache_items
                /\ cache_structures' = cache_structures]_vars
    /\ [][(IsCall("get_structure") /\ cache_enabled)
             => /\ RowExpired(cache_structures)
                      => /\ call'.ret = None
                         /\ cache_structures' = None
                /\ ~RowExpired(cache_structures)
                      => /\ call'.ret = cache_structures
                         /\ cache_structures' = cache_structures
                /\ cache_items' = cache_items]_vars

C18_Witness ==
    /\ cache_enabled
    /\ call.op = "get_item"
    /\ call.key = "A"
    /\ call.ret = None
    /\ cache_items["A"] = None
    /\ stored["A"] # None
    /\ now > Val(stored["A"]).at + ttl_hours
    /\ RowExpired(cache_items["B"])
    /\ RowExpired(cache_structures)

(* What each operation returns when nothing happened *)
DisabledResult(op) ==
    CASE op \in {"cache_item", "cache_structure", "invalidate_item", "clear_all",
                 "optimize_cache"} -> call.ret = FALSE
      [] op \in {"get_item", "get_structure"} -> call.ret = None
      [] op = "clear_expired" -> call.ret = 0
      [] op = "open" -> call.ret = TRUE
      [] OTHER -> call = NoCall

(* C19: with caching disabled the constructor and every operation leave    *)
(* the database file and both tables as they are, raise nothing, and       *)
(* return false (cache_item, cache_structure, invalidate_item, clear_all,  *)
(* optimize_cache), absent (get_item, get_structure) or 0 (clear_expired). *)
C19_DisabledIsNoOp ==
    /\ [](~cache_enabled => DisabledResult(call.op))
    /\ [][~cache_enabled => /\ cache_items' = cache_items
                            /\ cache_structures' = cache_structures
                            /\ database' = database]_vars

C19_Witness ==
    /\ ~cache_enabled
    /\ call.op = "invalidate_item"
    /\ call.ret = FALSE
    /\ cache_items[call.key] = OldItemRow
    /\ cache_structures = OldStructureRow
    /\ database.schema_version = Some(1)
    /\ now > ttl_hours

(* A database written under an older schema version *)
OlderDatabase ==
    /\ {"drive_items", "drive_structures"} \subseteq database.tables
    /\ _get_schema_version < SCHEMA_VERSION

(* C20: opening a database of an older schema version succeeds, brings the *)
(* schema to the current version and leaves every item and structure row   *)
(* as it was; opening a database that is at the current version changes    *)
(* neither the schema nor any row.                                         *)
C20_MigrationPreservesRows ==
    /\ [][(IsCall("open") /\ cache_enabled /\ OlderDatabase)
             => /\ call'.ret = TRUE
                /\ pc' = "idle"
                /\ database' = CurrentDatabase
                /\ cache_items' = cache_items
                /\ cache_structures' = cache_structures]_vars
    /\ [][(IsCall("open") /\ cache_enabled /\ database = CurrentDatabase)
             => /\ call'.ret = TRUE
                /\ database' = database
                /\ cache_items' = cache_items
                /\ cache_structures' = cache_structures]_vars

C20_Witness ==
    /\ cache_enabled
    /\ pc = "idle"
    /\ call.op = "open"
    /\ call.ret = TRUE
    /\ database = CurrentDatabase
    /\ stored = NothingStored
    /\ cache_items["A"] = OldItemRow
    /\ cache_items["B"] = OldItemRow
    /\ cache_structures = OldStructureRow

(***************************************************************************)
(* C21: constructing an enabled cache on a path where no database exists   *)
(* succeeds without raising: the three tables are created, the schema      *)
(* version is recorded, and the cache is open and empty.                   *)
(***************************************************************************)
C21_FreshDatabaseOpens ==
    [][(pc = "closed" /\ cache_enabled /\ database = NoDatabase /\ IsCall("open"))
          => /\ pc' = "idle"
             /\ database' = CurrentDatabase
             /\ cache_items' = [f \in Folders |-> None]
             /\ cache_structures' = None]_vars

(***************************************************************************)
(* C30: after the aggregation the structure's total_size is the sum of the *)
(* calculated sizes of the root folders plus the sizes of the root-level   *)
(* files, so that no file's bytes are counted more than once.              *)
(***************************************************************************)
RootItems == {i \in Items : \A f \in Folders : i \notin Kids(f)}

RootTotal ==
    SumOver([f \in Folders |-> IF calculated_size[f] = None THEN 0
                               ELSE Val(calculated_size[f])],
            RootItems \cap Folders)
    + SumOfSizes(RootItems \cap Files)

C30_TotalIsRootSum == (RunEnded /\ result = "returned") => structure.total_size = RootTotal

(***************************************************************************)
(* C29: total_files + total_folders equals the number of entries of the    *)
(* id-to-item mapping in every reachable state of a structure: after any   *)
(* sequence of add_item calls, an id added twice included, and after the   *)
(* aggregation's statistics pass.                                          *)
(***************************************************************************)
C29_CountersMatchMapping ==
    structure.total_files + structure.total_folders = Cardinality(all_items)

(***************************************************************************)
(* C23: when several threads interleave cache_item calls on one cache,     *)
(* every call returns true and no write is lost: at every moment each key  *)
(* that has been stored holds the value of the last call that committed    *)
(* it, so once the threads are done every stored item is retrievable.      *)
(***************************************************************************)
ThreadsDone == \A t \in Threads : conns[t].pc = "idle" /\ conns[t].todo = << >>

C23_ConcurrentPuts ==
    /\ \A t \in Threads : \A n \in 1..Len(conns[t].results) : conns[t].results[n].ret = TRUE
    /\ \A k \in Folders :
          stored[k] # None
             => /\ get_item(k) # None
                /\ ItemFields(Val(get_item(k))) = Val(stored[k]).value
    /\ ThreadsDone =>
          \A t \in Threads : \A n \in 1..Len(conns[t].results) :
              get_item(conns[t].results[n].key) # None

C23_Witness ==
    /\ ThreadsDone
    /\ \A t \in Threads : Len(conns[t].results) = 2
    /\ \E t \in Threads : conns[t].busy
    /\ \A k \in Folders : get_item(k) # None

(***************************************************************************)
(* C22: a cache fault stays inside the cache. With an enabled cache whose  *)
(* serialization or storage fails, cache_item and cache_structure return   *)
(* false and get_item and get_structure return absent, nothing is written  *)
(* and nothing is raised; and a folder whose cache write fails at the end  *)
(* of its aggregation still gets calculated_size, file_count, folder_count *)
(* and scan_complete committed on the live object, the run going on        *)
(* without an exception.                                                   *)
(***************************************************************************)
CacheCallStep(op) ==
    /\ call'.op = op
    /\ pc = "idle" /\ pc' = "idle"
    /\ database' = database
    /\ runs' = runs

CommitStep == pc = "children" /\ stats'.processed_items = stats.processed_items + 1

CacheWriteFails(f) == cache_enabled /\ (StorageLost \/ ~_serialize_item_ok(f))

C22_CacheFaultsContained ==
    [][/\ (CacheCallStep("cache_item") /\ CacheWriteFails(call'.key))
            => (call'.ret = FALSE /\ cache_items' = cache_items)
       /\ (CacheCallStep("cache_structure") /\ (StorageLost \/ ~_serialize_structure_ok))
            => (call'.ret = FALSE /\ cache_structures' = cache_structures)
       /\ (CacheCallStep("get_item") /\ StorageLost)
            => (call'.ret = None /\ cache_items' = cache_items)
       /\ (CacheCallStep("get_structure") /\ StorageLost)
            => (call'.ret = None /\ cache_structures' = cache_structures)
       /\ (CommitStep /\ CacheWriteFails(Top.folder))
            => /\ calculated_size'[Top.folder] = Some(Top.total_size)
               /\ file_count'[Top.folder]
                     = Top.file_count + NestedCount(file_count, Top.folder)
               /\ folder_count'[Top.folder]
                     = Top.folder_count + NestedCount(folder_count, Top.folder)
               /\ scan_complete'[Top.folder]
               /\ cache_items' = cache_items
               /\ exc' = NoExc
               /\ pc' \in {"children", "loop"}]_vars

(* a run that lost its storage half way has ended, with a result on every  *)
(* folder, and the four operations have been tried on the lost storage     *)
C22_Witness ==
    /\ StorageLost
    /\ pc = "idle" /\ runs = 1 /\ result = "returned"
    /\ \A f \in Folders : calculated_size[f] # None /\ scan_complete[f]
    /\ calculated_size["A"] = Some(1024)
    /\ call.op = "get_item" /\ call.ret = None

(***************************************************************************)
(* C24: a scan_drive_complete call with use_cache = true on which a cached *)
(* structure exists that has not expired and has scan_complete = true      *)
(* returns that structure at once: no list_files call, no new structure,   *)
(* no aggregation. Every other call goes on to fetch, and a call that      *)
(* returns a structure it built has fetched, built, aggregated if asked    *)
(* to, cached (when the cache is enabled) and returned, in that order.     *)
(***************************************************************************)
ScanStartStep == scan'.n = scan.n + 1

CachedComplete ==
    /\ cache_enabled
    /\ cache_structures # None
    /\ now <= Val(cache_structures).expires_at
    /\ Val(cache_structures).scan_complete

C24_CachedStructureFirst ==
    [][/\ (ScanStartStep /\ scan'.use_cache /\ CachedComplete)
            => /\ scan'.phase = "done" /\ scan'.outcome = "cached"
               /\ scan'.steps = <<"return">>
               /\ scan'.remote_calls = 0
               /\ runs' = runs
               /\ scan'.returned = Returned(TRUE, Val(cache_structures).all_items,
                                            Val(cache_structures).calculated_size)
               /\ UNCHANGED <<scanVars, cache_items, cache_structures>>
       /\ (ScanStartStep /\ ~(scan'.use_cache /\ CachedComplete))
            => scan'.phase = "first_page" /\ scan'.outcome = "none"
       /\ scan'.outcome = "built"
            => scan'.steps = <<"fetch", "build">>
                                \o (IF scan'.calculate_sizes THEN <<"aggregate">> ELSE << >>)
                                \o (IF cache_enabled THEN <<"cache">> ELSE << >>)
                                \o <<"return">>]_vars

C24_Witness ==
    /\ scan.n = 2 /\ scan.phase = "done"
    /\ scan.use_cache /\ scan.outcome = "cached" /\ scan.remote_calls = 0
    /\ runs = 1

(***************************************************************************)
(* C25: a scan_drive_complete call with use_cache = false uses no cached   *)
(* result: it does not return the cached structure, it fetches the         *)
(* listing, and during its aggregation no folder takes calculated_size,    *)
(* file_count and folder_count from a row of the persistent cache.         *)
(***************************************************************************)
AdoptStep ==
    /\ scan.phase = "aggregating"
    /\ pc = "enter"
    /\ calculated_folders[arg] = None
    /\ CachedUsable(arg)
    /\ stats'.cache_hits = stats.cache_hits + 1

C25_NoCacheUsesNoCachedResult ==
    [][~scan'.use_cache
          => /\ scan'.outcome # "cached"
             /\ scan'.outcome = "built" => scan'.remote_calls >= 1
             /\ ~AdoptStep]_vars

(***************************************************************************)
(* C26: every scan_drive_complete call made with calculate_sizes = true    *)
(* that returns a structure returns one in which every folder has a        *)
(* calculated_size, whatever calls came before it.                         *)
(***************************************************************************)
ScanReturned == scan.phase = "done" /\ scan.returned # None

C26_SizesWhenAsked ==
    (ScanReturned /\ scan.calculate_sizes)
       => \A f \in Folders \cap Val(scan.returned).all_items :
             Val(scan.returned).calculated_size[f] # None

(***************************************************************************)
(* C27: a scan_drive_complete call without a progress callback whose       *)
(* listing fetch succeeds raises nothing and returns a structure with      *)
(* scan_complete = true, also when folders still need a size.              *)
(***************************************************************************)
C27_CallbackOptional ==
    (scan.phase = "done" /\ ~scan.callback /\ scan.page_failed = 0)
       => /\ scan.outcome # "raised"
          /\ scan.returned # None
          /\ Val(scan.returned).scan_complete

(***************************************************************************)
(* C28: of the failures of a scan only a failed fetch of the first listing *)
(* page reaches the caller as an exception. When a later page fails the    *)
(* fetching stops, the scan goes on with the items of the pages fetched    *)
(* so far, and a structure is returned.                                    *)
(***************************************************************************)
C28_OnlyFirstPageFailurePropagates ==
    scan.phase = "done"
       => /\ scan.page_failed = 1 => scan.outcome = "raised"
          /\ scan.outcome = "raised" => scan.page_failed = 1
          /\ scan.page_failed = 2
                => /\ scan.returned # None
                   /\ scan.outcome = "built" => Val(scan.returned).all_items = Page(1)

(***************************************************************************)
(* C31: in every reachable state every folder that has a calculated_size   *)
(* has scan_complete = true: after the hierarchy is built, after an        *)
(* aggregation, after an error was handled.                                *)
(***************************************************************************)
C31_SizedOnlyWhenComplete ==
    \A f \in Folders : calculated_size[f] # None => scan_complete[f]

(***************************************************************************)
(* C40: a structure is stored in the cache with scan_complete = true only  *)
(* if every page of the listing was fetched, and a scan answered from the  *)
(* cache never hands out, as complete, the items of a listing that was cut *)
(* short by a failure on a later page.                                     *)
(***************************************************************************)
WholeListing == Page(1) \cup Page(2)

C40_CompleteOnlyWhenAllPagesFetched ==
    /\ (cache_structures # None /\ Val(cache_structures).scan_complete)
          => Val(cache_structures).all_items = WholeListing
    /\ (scan.phase = "done" /\ scan.outcome = "cached" /\ Val(scan.returned).scan_complete)
          => Val(scan.returned).all_items = WholeListing

(***************************************************************************)
(* C39: clear_all removes every item row and every structure row, so that  *)
(* get_item and get_structure return absent for every key. The cache stays *)
(* usable: a put made afterwards succeeds and is read back, and opening    *)
(* the same database again succeeds and leaves the stored schema version   *)
(* at the current version.                                                 *)
(***************************************************************************)
AfterClearAll == cache_enabled /\ pc = "idle" /\ database.schema_version = None

C39_ClearAllLeavesCacheUsable ==
    [][/\ (IsCall("clear_all") /\ cache_enabled)
            => /\ call'.ret = TRUE
               /\ \A f \in Folders : cache_items'[f] = None /\ get_item(f)' = None
               /\ cache_structures' = None /\ get_structure' = None
       /\ (AfterClearAll /\ IsCall("cache_item") /\ _serialize_item_ok(call'.key))
            => /\ call'.ret = TRUE
               /\ \A f \in Folders :
                     f = call'.key
                        => /\ get_item(f)' # None
                           /\ ItemFields(Val(get_item(f)')) = Val(stored'[f]).value
       /\ (AfterClearAll /\ IsCall("cache_structure") /\ _serialize_structure_ok)
            => /\ call'.ret = TRUE
               /\ get_structure' # None
               /\ StructureFields(Val(get_structure')) = Val(stored'[StructureKey]).value
       /\ (AfterClearAll /\ IsCall("get_item") /\ StoredFresh(call'.key))
            => /\ call'.ret # None
               /\ ItemFields(Val(call'.ret)) = Val(stored[call'.key]).value
       /\ (AfterClearAll /\ call'.op = "open" /\ database' # database)
            => /\ pc' = "idle"
               /\ database' = CurrentDatabase
               /\ cache_items' = cache_items /\ cache_structures' = cache_structures]_vars

(* after a clear_all an item was put and read back *)
C39_Witness ==
    /\ AfterClearAll
    /\ call.op = "get_item" /\ call.ret # None
    /\ stored[call.key] # None
    /\ ItemFields(Val(call.ret)) = Val(stored[call.key]).value
    /\ cache_structures = None

(***************************************************************************)
(* C34: the in-progress marker is released unconditionally. As stated:     *)
(* whenever a call of _calculate_folder_size_recursive on a folder ends,   *)
(* by return or by exception, the folder's id is not in the in-progress    *)
(* set afterwards; the set is empty between two candidates and after the   *)
(* run; a top-level attempt never finds its folder in progress.            *)
(***************************************************************************)
(* the call that ends with this step: one that never set the marker (it    *)
(* returned or raised before line 199), or the one of the frame dropped    *)
EndsBeforeMarking ==
    pc = "enter" /\ Len(stack') = Len(stack) /\ pc' \in {"loop", "children", "unwind"}

EndsAfterMarking ==
    pc \in {"children", "unwind"} /\ Len(stack') < Len(stack)

SetEmptyBetweenCandidates ==
    /\ pc \in {"loop", "idle"} => processing_folders = {}
    /\ (pc = "enter" /\ stack = << >>) => arg \notin processing_folders

C34_MarkerReleasedAtEveryEnd ==
    /\ [][/\ EndsBeforeMarking => arg \notin processing_folders'
          /\ EndsAfterMarking => Top.folder \notin processing_folders']_vars
    /\ []SetEmptyBetweenCandidates

(* C34 as the code has it: a call that set the marker removes it when it    *)
(* ends, by return or by exception, and removes nothing else; a call that  *)
(* ends without having set it (the folder was in progress, a memo or cache *)
(* hit, a failure at entry) leaves the set as it is, so that the set holds *)
(* exactly the folders of the calls still running.                         *)
C34_MarkerReleasedByItsOwner ==
    /\ [][/\ EndsBeforeMarking => processing_folders' = processing_folders
          /\ EndsAfterMarking
                => processing_folders' = processing_folders \ {Top.folder}]_vars
    /\ [](processing_folders = StackFolders)
    /\ []SetEmptyBetweenCandidates

(* folder A lost its first attempt to a failure below it and was computed  *)
(* on the retry                                                            *)
C34_Witness ==
    /\ pc = "idle" /\ runs = 1 /\ result = "returned"
    /\ processing_folders = {}
    /\ \E f \in Folders :
          /\ attempts[f] = 2
          /\ \E g \in Kids(f) \cap Folders : g # f /\ fault[g] = "RateLimitOnce" /\ g \in spent
          /\ scan_complete[f] /\ calculated_folders[f] # None

(***************************************************************************)
(* C35: within one run, from the reset at its start to its end, a folder   *)
(* is committed (its fields written from a walk of its children, and       *)
(* counted in processed_items) at most once, with cycles, retries and      *)
(* failures: a commit is made only for a folder that the run's memo does   *)
(* not hold, it enters the folder in the memo, and the memo keeps it until *)
(* the next reset. processed_items never exceeds the number of folders.    *)
(***************************************************************************)
Counted == stats'.processed_items # stats.processed_items

InMemo == {f \in Folders : calculated_folders[f] # None}

SameRun == runs' = runs /\ scan'.n = scan.n

C35_CommittedAtMostOnce ==
    /\ [][/\ (Counted /\ SameRun)
               => /\ pc = "children"
                  /\ stats'.processed_items = stats.processed_items + 1
                  /\ Top.folder \notin InMemo
                  /\ calculated_folders'[Top.folder] = calculated_size'[Top.folder]
                  /\ \A g \in Folders \ {Top.folder} :
                        /\ calculated_size'[g] = calculated_size[g]
                        /\ file_count'[g] = file_count[g]
                        /\ folder_count'[g] = folder_count[g]
          /\ SameRun
               => \A f \in InMemo : calculated_folders'[f] = calculated_folders[f]]_vars
    /\ [](stats.processed_items <= Cardinality(InMemo))
    /\ [](stats.processed_items <= Cardinality(Folders \cap all_items))

(* a run over a cycle, with a retried folder, that committed every folder *)
C35_Witness ==
    /\ pc = "idle" /\ runs = 1 /\ result = "returned"
    /\ stats.processed_items = Cardinality(Folders)
    /\ \E f \in Folders : f \in Below(f)
    /\ \E f \in Folders : attempts[f] = 2

(***************************************************************************)
(* C36: for a forest, an empty persistent cache, no calculated size and no *)
(* failure, the calculated_size, file_count and folder_count of every      *)
(* folder after calculate_full_drive_sizes are the same for every order in *)
(* which the candidates are taken: they are the values of one walk of the  *)
(* child lists, which depends on the structure alone.                      *)
(***************************************************************************)
RECURSIVE WalkSize(_)
WalkSize(i) ==
    IF ~is_folder(i) THEN size(i)
    ELSE SumOver([k \in Items |-> WalkSize(k)], Kids(i))

RECURSIVE WalkFiles(_)
WalkFiles(i) ==
    IF ~is_folder(i) THEN 1
    ELSE SumOver([k \in Items |-> WalkFiles(k)], Kids(i))

RECURSIVE WalkFolders(_)
WalkFolders(i) ==
    IF ~is_folder(i) THEN 0
    ELSE SumOver([k \in Items |-> IF is_folder(k) THEN 1 + WalkFolders(k) ELSE 0], Kids(i))

WalkFields ==
    [calculated_size |-> [f \in Folders |-> Some(WalkSize(f))],
     file_count |-> [f \in Folders |-> WalkFiles(f)],
     folder_count |-> [f \in Folders |-> WalkFolders(f)]]

C36_OrderIndependent ==
    (FirstRunEnded /\ result = "returned" /\ IsForest /\ NoFailures)
        => /\ Fields = WalkFields
           /\ history[1].fields = WalkFields
           /\ history[1].candidates = Folders

(* B lies in A and was met twice in the run: as a candidate and as A's     *)
(* child, in one order or the other                                        *)
C36_Witness ==
    /\ FirstRunEnded /\ result = "returned" /\ IsForest /\ NoFailures
    /\ "B" \in Kids("A") /\ "C" \in Kids("B")
    /\ stats.cache_hits = 2
    /\ stats.processed_items = 3
    /\ Fields = WalkFields
    /\ calculated_size["A"] = Some(3072)

(***************************************************************************)
(* C37: after calculate_incremental_sizes has ended, with the cache        *)
(* enabled and every cache write succeeding, every folder that the run     *)
(* recomputed has a row in the persistent cache that holds the fields the  *)
(* run committed, in whatever order the candidates were taken. In the      *)
(* first run on an empty cache the recomputed folders are those of the     *)
(* run's memo.                                                             *)
(***************************************************************************)
NoCacheFaults == \A f \in Folders : _serialize_item_ok(f)

RowHoldsFields(f) ==
    /\ cache_items[f] # None
    /\ Val(cache_items[f]).calculated_size = calculated_size[f]
    /\ Val(cache_items[f]).file_count = file_count[f]
    /\ Val(cache_items[f]).folder_count = folder_count[f]

C37_RecomputedFoldersAreCached ==
    (JustEnded /\ runs = 1 /\ result = "returned" /\ cache_enabled /\ NoCacheFaults)
        => \A f \in InMemo : RowHoldsFields(f)

(***************************************************************************)
(* C38: a get_item that has read an expired row of X and a cache_item that *)
(* stores a fresh entry for X cannot interleave so that the fresh entry is *)
(* deleted: once cache_item(X) has returned success X can be retrieved,    *)
(* with the value stored, until it expires or is invalidated or cleared.   *)
(***************************************************************************)
C38_FreshEntrySurvivesExpiredRead ==
    \A k \in Folders :
        (stored[k] # None /\ StoredFresh(k))
           => /\ cache_items[k] # None
              /\ ~_is_expired(Val(cache_items[k]).expires_at)
              /\ ItemFields(Val(cache_items[k])) = Val(stored[k]).value

(***************************************************************************)
(* C32: after build_hierarchy every item without a resolved parent (no     *)
(* parent id, or no parent id that names a folder of the mapping) is in    *)
(* the list of root folders or of root files, so that every item of the    *)
(* mapping is a root or the child of exactly one folder.                   *)
(***************************************************************************)
HierarchyBuilt == scan.phase = "built" /\ all_items = scan.fetched

Roots == SeqToSet(structure.root_folders) \cup SeqToSet(structure.root_files)

ParentsOf(i) == {f \in Folders : i \in Kids(f)}

Occurrences(f, i) == Cardinality({k \in 1..Len(children[f]) : children[f][k] = i})

C32_UnresolvedItemsAreRoots ==
    HierarchyBuilt
       => \A i \in all_items :
             /\ AttachTo(all_items, drive[i]) = << >> => i \in Roots
             /\ (i \in Roots /\ ParentsOf(i) = {})
                   \/ (i \notin Roots /\ Cardinality(ParentsOf(i)) = 1)

(***************************************************************************)
(* C33: after build_hierarchy an item that lists several parent ids is in  *)
(* the child list of at most one folder, the first listed parent that is a *)
(* folder of the mapping, and at most once in it; the sizes the second     *)
(* pass gives the root folders count it under that parent only.            *)
(***************************************************************************)
C33_AttachedToFirstKnownParent ==
    HierarchyBuilt
       => /\ \A i \in all_items :
                Len(drive[i]) >= 2
                   => /\ Cardinality(ParentsOf(i)) <= 1
                      /\ ParentsOf(i) = SeqToSet(AttachTo(all_items, drive[i]))
                      /\ \A f \in Folders : Occurrences(f, i) <= 1
          /\ \A r \in SeqToSet(structure.root_folders) :
                /\ calculated_size[r] = Some(SumOfSizes(BelowIn(children, r) \cap Files))
                /\ file_count[r] = Cardinality(BelowIn(children, r) \cap Files)

(* x lists A and B, both folders of the mapping, and hangs in A alone;     *)
(* B lists C, which is not in the listing, and A                           *)
C33_Witness ==
    /\ HierarchyBuilt
    /\ drive["x"] = <<"A", "B">> /\ ParentsOf("x") = {"A"}
    /\ drive["B"] = <<"C", "A">> /\ "C" \notin all_items /\ ParentsOf("B") = {"A"}
    /\ calculated_size["A"] = Some(3072)

====
